---- MODULE Spec2Model ----
(***************************************************************************)
(* Card-battle engine of VibeBot: BattleCard, Battle and BattleManager of  *)
(* src/card_game/battle_system.py, the ability registry of                 *)
(* src/card_game/abilities.py and the button handlers of                   *)
(* src/card_game/battle_ui.py that drive them; and the pack tokens and     *)
(* pack opening of src/card_game/pack_system.py, with the tables           *)
(* user_packs and user_cards they read and write.                          *)
(*                                                                         *)
(* Of the Discord views, ChallengeView's two flags and the page of card    *)
(* buttons of CardSelectionView are modelled; BattleView only stores a     *)
(* battle id and a user id. A handler is enabled whenever the guards in    *)
(* its own code pass; SpecConcurrent adds the interactions in flight on    *)
(* the event loop.                                                         *)
(***************************************************************************)
EXTENDS Integers, Sequences, FiniteSets, TLC

VARIABLES
    db_type,         \* DatabaseManager.db_type: 'postgresql' or 'sqlite'
    battles,         \* heap of Battle objects, by battle_id (NoBattle: not created)
    active_battles,  \* BattleManager.active_battles: the registered battle ids
    next_id,         \* next battle_id of the battles table (SERIAL / AUTOINCREMENT)
    ret,             \* the last handler call and what it returned
    last_attacker,   \* history: per battle, owner of the last accepted attack (0: none)
    unit,            \* the object a unit specification works on: a stand-alone
                     \* BattleCard and the last take_damage call on it (the card
                     \* before it, its argument and its return value); the
                     \* arguments and result of an AbilitySystem call; a
                     \* ChallengeView; a CardSelectionView
    user_packs,      \* table user_packs: quantity by <<user_id, pack_type>>
    user_cards,      \* table user_cards: quantity by <<user_id, card_id>>
    calls            \* calls in progress or made: the consume_pack_token calls
                     \* (position and locals); the interaction of each
                     \* participant on the event loop; the saves of the last
                     \* handler; the failures attack returned, by cause

vars == <<db_type, battles, active_battles, next_id, ret, last_attacker, unit,
          user_packs, user_cards, calls>>

----------------------------------------------------------------------------
(* Bounds *)

MaxBattles == 2      \* rows the battles table hands out
MaxLog == 7          \* card submissions are cut off once a battle log is this long
MaxTurn == 3         \* attacks are cut off once turn_number is past this
MaxStat == 3         \* largest health / shield / armor of the stand-alone card
MaxDamage == 4       \* largest damage argument of a stand-alone take_damage
MaxTokens == 2       \* largest pack token balance a player starts with
MaxCardsPerPack == 2 \* largest cards_per_pack argument of open_pack
MaxCalls == 3        \* consume_pack_token calls in progress at once

Players == 1..3
BattleIds == 0..MaxBattles

Max(a, b) == IF a >= b THEN a ELSE b
Min(a, b) == IF a <= b THEN a ELSE b

----------------------------------------------------------------------------
(* card_library.py: the catalogue entries used (name, attack, health, ability) *)

CardLibrary ==
    { [name |-> "Fire Sprite",   attack |-> 2, health |-> 1, ability |-> "None"],
      [name |-> "Water Drop",    attack |-> 1, health |-> 3, ability |-> "None"],
      [name |-> "Ember Scout",   attack |-> 1, health |-> 2, ability |-> "Rush: Can attack immediately"],
      [name |-> "Cinder Beast",  attack |-> 2, health |-> 3, ability |-> "Burn: Deal 1 damage when played"],
      [name |-> "Stone Beetle",  attack |-> 2, health |-> 1, ability |-> "Armor: Reduce damage by 1"],
      [name |-> "Radiant Orb",   attack |-> 0, health |-> 3, ability |-> "Shield: Absorb next attack"],
      [name |-> "Zephyr Dancer", attack |-> 1, health |-> 1, ability |-> "Evasion: 50% chance to dodge attacks"] }

\* random.randint(1, 100): one roll per outcome class of the dodge chances in use
DodgeRolls == {1, 50, 51, 100}

----------------------------------------------------------------------------
(* abilities.py *)

AbilityEffect(effect_type, value, target, condition) ==
    [effect_type |-> effect_type, value |-> value, target |-> target, condition |-> condition]

NoEffect == AbilityEffect("", 0, "", "")

_ability_registry ==
       ("Burn: Deal 1 damage when played"      :> AbilityEffect("damage", 1, "enemy", "on_play"))
    @@ ("Burn: Deal 1 extra damage"            :> AbilityEffect("damage_boost", 1, "self", "on_attack"))
    @@ ("Heal: Restore 1 health when played"   :> AbilityEffect("heal", 1, "self", "on_play"))
    @@ ("Armor: Reduce damage by 1"            :> AbilityEffect("damage_reduction", 1, "self", "passive"))
    @@ ("Shield: Absorb next attack"           :> AbilityEffect("shield", 1, "self", "on_play"))
    @@ ("Rush: Can attack immediately"         :> AbilityEffect("rush", 1, "self", "passive"))
    @@ ("Evasion: 50% chance to dodge attacks" :> AbilityEffect("dodge", 50, "self", "passive"))
    @@ ("Curse: Reduce enemy attack by 1"      :> AbilityEffect("attack_debuff", 1, "enemy", "on_play"))
    @@ ("Earthquake: Stun all enemies"         :> AbilityEffect("stun", 1, "all_enemies", "on_play"))
    @@ ("Shock: Stun target"                   :> AbilityEffect("stun", 1, "enemy", "on_attack"))
    @@ ("Rage: +1 attack when damaged"         :> AbilityEffect("attack_boost", 1, "self", "on_damage"))
    @@ ("Flying: Cannot be blocked"            :> AbilityEffect("flying", 1, "self", "passive"))

get_ability_effect(ability_text) ==
    IF ability_text = "None" \/ ability_text = ""
    THEN NoEffect
    ELSE IF ability_text \in DOMAIN _ability_registry
         THEN _ability_registry[ability_text]
         ELSE NoEffect

\* can_trigger_ability that does not let a passive ability through
can_trigger_ability_NoPassive(ability_text, trigger_condition) ==
    LET effect == get_ability_effect(ability_text)
    IN  IF effect = NoEffect
        THEN FALSE
        ELSE effect.condition = trigger_condition

can_trigger_ability(ability_text, trigger_condition) ==
    LET effect == get_ability_effect(ability_text)
    IN  IF effect = NoEffect
        THEN FALSE
        ELSE effect.condition = trigger_condition \/ effect.condition = "passive"

\* the dict an _apply_* helper returns: 'applied' and the one amount key it sets
EffectResult(applied, key, val) == [applied |-> applied, key |-> key, val |-> val]

\* effect_result.get(key, default)
ResultGet(effect_result, key, default) ==
    IF effect_result.key = key THEN effect_result.val ELSE default

_execute_effect(effect, has_target) ==
    CASE effect.effect_type = "damage" ->
            IF ~has_target THEN EffectResult(FALSE, "", 0)
            ELSE EffectResult(TRUE, "damage_dealt", effect.value)
      [] effect.effect_type = "heal" -> EffectResult(TRUE, "heal_amount", effect.value)
      [] effect.effect_type = "damage_boost" -> EffectResult(TRUE, "attack_boost", effect.value)
      [] effect.effect_type = "shield" -> EffectResult(TRUE, "shield_amount", effect.value)
      [] effect.effect_type = "stun" ->
            IF ~has_target THEN EffectResult(FALSE, "", 0)
            ELSE EffectResult(TRUE, "stun_duration", effect.value)
      [] effect.effect_type = "dodge" -> EffectResult(TRUE, "dodge_chance", effect.value)
      [] effect.effect_type = "attack_boost" -> EffectResult(TRUE, "attack_boost", effect.value)
      [] effect.effect_type = "attack_debuff" ->
            IF ~has_target THEN EffectResult(FALSE, "", 0)
            ELSE EffectResult(TRUE, "attack_debuff", effect.value)
      [] effect.effect_type = "damage_reduction" -> EffectResult(TRUE, "damage_reduction", effect.value)
      [] OTHER -> EffectResult(FALSE, "", 0)

\* _format_ability_message, by the kind of message
_format_ability_message(result) ==
    IF ~result.applied THEN "failed to activate" ELSE "activated"

\* has_target: target_data is not None. No helper of _execute_effect raises
\* (each reads its arguments with dict.get after the None test), so the
\* except branch is never taken
execute_ability(ability_text, has_target) ==
    LET effect == get_ability_effect(ability_text)
    IN  IF effect = NoEffect
        THEN [success |-> FALSE, effect_type |-> "", result |-> EffectResult(FALSE, "", 0),
              message |-> "Unknown ability"]
        ELSE [success |-> TRUE, effect_type |-> effect.effect_type,
              result |-> _execute_effect(effect, has_target),
              message |-> _format_ability_message(_execute_effect(effect, has_target))]

----------------------------------------------------------------------------
(* battle_system.py: BattleCard *)

NoCard == [none |-> TRUE]

\* 'Rush:' in self.ability, over the ability texts of the catalogue
RushAbilities == {"Rush: Can attack immediately"}

BattleCard(card_data, owner_id) ==
    [name |-> card_data.name,
     ability |-> card_data.ability,
     owner_id |-> owner_id,
     current_attack |-> card_data.attack,
     current_health |-> card_data.health,
     max_health |-> card_data.health,
     has_attacked |-> FALSE,
     can_attack |-> TRUE,
     is_stunned |-> FALSE,
     dodge_chance |-> 0,
     damage_reduction |-> 0,
     shield_amount |-> 0,
     has_rush |-> card_data.ability \in RushAbilities]

is_alive(card) == card.current_health > 0

\* take_damage without the floor of 1 on the armor-reduced damage
take_damage_NoFloor(card, damage) ==
    IF damage <= 0
    THEN [card |-> card, ret |-> 0]
    ELSE LET reduced0 == Max(0, damage - card.damage_reduction)
             shield_absorbed == IF card.shield_amount > 0
                                THEN Min(card.shield_amount, reduced0)
                                ELSE 0
             reduced_damage == reduced0 - shield_absorbed
             actual_damage == Min(reduced_damage, card.current_health)
         IN  [card |-> [card EXCEPT !.shield_amount = @ - shield_absorbed,
                                    !.current_health = @ - actual_damage],
              ret |-> actual_damage]

\* returns the card after the call and the value returned (actual_damage)
take_damage(card, damage) ==
    IF damage <= 0
    THEN [card |-> card, ret |-> 0]
    ELSE LET reduced0 == Max(1, damage - card.damage_reduction)
             shield_absorbed == IF card.shield_amount > 0
                                THEN Min(card.shield_amount, reduced0)
                                ELSE 0
             reduced_damage == reduced0 - shield_absorbed
             actual_damage == Min(reduced_damage, card.current_health)
         IN  [card |-> [card EXCEPT !.shield_amount = @ - shield_absorbed,
                                    !.current_health = @ - actual_damage],
              ret |-> actual_damage]

\* heal that is not capped at max_health
heal_NoCap(card, amount) ==
    IF amount <= 0
    THEN [card |-> card, ret |-> 0]
    ELSE [card |-> [card EXCEPT !.current_health = @ + amount], ret |-> amount]

heal(card, amount) ==
    IF amount <= 0
    THEN [card |-> card, ret |-> 0]
    ELSE LET actual_healing == Min(amount, card.max_health - card.current_health)
         IN  [card |-> [card EXCEPT !.current_health = @ + actual_healing],
              ret |-> actual_healing]

\* can_dodge_attack with the comparison roll < dodge_chance
can_dodge_attack_Strict(card, roll) ==
    IF card.dodge_chance <= 0 THEN FALSE ELSE roll < card.dodge_chance

\* random.randint(1, 100) <= dodge_chance, for the roll drawn
can_dodge_attack(card, roll) ==
    IF card.dodge_chance <= 0 THEN FALSE ELSE roll <= card.dodge_chance

reset_turn_flags(card) ==
    LET c1 == [card EXCEPT !.has_attacked = FALSE]
    IN  IF ~c1.has_rush THEN [c1 EXCEPT !.can_attack = TRUE] ELSE c1

\* BattleCard.to_dict: a new dict of the card's fields (has_rush is not one)
to_dict(card) ==
    [name |-> card.name,
     current_attack |-> card.current_attack,
     current_health |-> card.current_health,
     max_health |-> card.max_health,
     ability |-> card.ability,
     owner_id |-> card.owner_id,
     has_attacked |-> card.has_attacked,
     can_attack |-> card.can_attack,
     is_stunned |-> card.is_stunned,
     dodge_chance |-> card.dodge_chance,
     damage_reduction |-> card.damage_reduction,
     shield_amount |-> card.shield_amount]

----------------------------------------------------------------------------
(* battle_system.py: Battle *)

NoBattle == [none |-> TRUE]
NoPlayer == 0       \* None for a player id (winner_id, get_opponent_id)

\* Battle.__init__
Battle(player1_id, player2_id) ==
    [player1_id |-> player1_id,
     player2_id |-> player2_id,
     state |-> "card_selection",
     current_turn |-> player1_id,
     turn_number |-> 1,
     phase |-> "card_play",
     player1_card |-> NoCard,
     player2_card |-> NoCard,
     battle_log |-> <<>>,
     winner_id |-> NoPlayer]

log_event_Prepends(b, message) ==
    [b EXCEPT !.battle_log = <<[turn |-> b.turn_number, message |-> message]>> \o @]

log_event(b, message) ==
    [b EXCEPT !.battle_log = Append(@, [turn |-> b.turn_number, message |-> message])]

get_player_card(b, player_id) ==
    IF player_id = b.player1_id THEN b.player1_card
    ELSE IF player_id = b.player2_id THEN b.player2_card
    ELSE NoCard

get_opponent_card(b, player_id) ==
    IF player_id = b.player1_id THEN b.player2_card
    ELSE IF player_id = b.player2_id THEN b.player1_card
    ELSE NoCard

\* get_opponent_id answering with the asking participant
get_opponent_id_Self(b, player_id) ==
    IF player_id = b.player1_id THEN b.player1_id
    ELSE IF player_id = b.player2_id THEN b.player2_id
    ELSE NoPlayer

get_opponent_id(b, player_id) ==
    IF player_id = b.player1_id THEN b.player2_id
    ELSE IF player_id = b.player2_id THEN b.player1_id
    ELSE NoPlayer

is_player_turn(b, player_id) ==
    b.current_turn = player_id /\ b.state = "in_progress"

\* write a card object back into the slot of its owner
SetCard(b, player_id, card) ==
    IF player_id = b.player1_id THEN [b EXCEPT !.player1_card = card]
    ELSE [b EXCEPT !.player2_card = card]

_end_battle(b, winner_id) ==
    log_event([b EXCEPT !.state = "finished", !.winner_id = winner_id], "battle_ends")

\* _end_turn leaving the turn with a participant whose card has rush
_end_turn_KeepsRushTurn(b) ==
    LET cur == get_player_card(b, b.current_turn)
        b1 == IF cur # NoCard /\ cur.has_rush
              THEN b
              ELSE IF b.current_turn = b.player1_id
              THEN [b EXCEPT !.current_turn = b.player2_id]
              ELSE [b EXCEPT !.current_turn = b.player1_id, !.turn_number = @ + 1]
        b2 == IF b1.player1_card # NoCard
              THEN [b1 EXCEPT !.player1_card = reset_turn_flags(@)] ELSE b1
        b3 == IF b2.player2_card # NoCard
              THEN [b2 EXCEPT !.player2_card = reset_turn_flags(@)] ELSE b2
    IN  log_event([b3 EXCEPT !.phase = "attack"], "turn_begins")

\* _end_turn handing the turn back to winner_id instead of player1_id
_end_turn_TurnToWinner(b) ==
    LET b1 == IF b.current_turn = b.player1_id
              THEN [b EXCEPT !.current_turn = b.player2_id]
              ELSE [b EXCEPT !.current_turn = b.winner_id, !.turn_number = @ + 1]
        b2 == IF b1.player1_card # NoCard
              THEN [b1 EXCEPT !.player1_card = reset_turn_flags(@)] ELSE b1
        b3 == IF b2.player2_card # NoCard
              THEN [b2 EXCEPT !.player2_card = reset_turn_flags(@)] ELSE b2
    IN  log_event([b3 EXCEPT !.phase = "attack"], "turn_begins")

\* _end_turn counting every change of turn
_end_turn_CountsEveryTurn(b) ==
    LET b1 == IF b.current_turn = b.player1_id
              THEN [b EXCEPT !.current_turn = b.player2_id, !.turn_number = @ + 1]
              ELSE [b EXCEPT !.current_turn = b.player1_id, !.turn_number = @ + 1]
        b2 == IF b1.player1_card # NoCard
              THEN [b1 EXCEPT !.player1_card = reset_turn_flags(@)] ELSE b1
        b3 == IF b2.player2_card # NoCard
              THEN [b2 EXCEPT !.player2_card = reset_turn_flags(@)] ELSE b2
    IN  log_event([b3 EXCEPT !.phase = "attack"], "turn_begins")

_end_turn(b) ==
    LET b1 == IF b.current_turn = b.player1_id
              THEN [b EXCEPT !.current_turn = b.player2_id]
              ELSE [b EXCEPT !.current_turn = b.player1_id, !.turn_number = @ + 1]
        b2 == IF b1.player1_card # NoCard
              THEN [b1 EXCEPT !.player1_card = reset_turn_flags(@)] ELSE b1
        b3 == IF b2.player2_card # NoCard
              THEN [b2 EXCEPT !.player2_card = reset_turn_flags(@)] ELSE b2
    IN  log_event([b3 EXCEPT !.phase = "attack"], "turn_begins")

\* caster and target are named by their owners: the objects live in the battle
_apply_ability_result(b, caster_id, result) ==
    LET effect_result == result.result
        effect_type == result.effect_type
        target_id == get_opponent_id(b, caster_id)
        caster == get_player_card(b, caster_id)
        target == get_opponent_card(b, caster_id)
    IN  IF ~effect_result.applied THEN b
        ELSE IF effect_type = "damage" /\ target # NoCard THEN
            LET td == take_damage(target, ResultGet(effect_result, "damage_dealt", 0))
                b1 == log_event(SetCard(b, target_id, td.card), "ability_damage")
            IN  IF ~is_alive(td.card)
                THEN _end_battle(log_event(b1, "ability_defeat"), caster_id)
                ELSE b1
        ELSE IF effect_type = "heal" THEN
            log_event(SetCard(b, caster_id,
                        heal(caster, ResultGet(effect_result, "heal_amount", 0)).card), "heals")
        ELSE IF effect_type = "damage_boost" THEN
            log_event(SetCard(b, caster_id,
                        [caster EXCEPT !.current_attack =
                            @ + ResultGet(effect_result, "attack_boost", 0)]), "attack_increases")
        ELSE IF effect_type = "shield" THEN
            log_event(SetCard(b, caster_id,
                        [caster EXCEPT !.shield_amount =
                            @ + ResultGet(effect_result, "shield_amount", 0)]), "gains_shield")
        ELSE IF effect_type = "dodge" THEN
            log_event(SetCard(b, caster_id,
                        [caster EXCEPT !.dodge_chance =
                            ResultGet(effect_result, "dodge_chance", 0)]), "gains_dodge")
        ELSE IF effect_type = "damage_reduction" THEN
            log_event(SetCard(b, caster_id,
                        [caster EXCEPT !.damage_reduction =
                            @ + ResultGet(effect_result, "damage_reduction", 0)]), "gains_armor")
        ELSE b

_trigger_ability(b, card_owner, trigger) ==
    LET card == get_player_card(b, card_owner)
    IN  IF ~can_trigger_ability(card.ability, trigger) THEN b
        ELSE LET target_card == get_opponent_card(b, card_owner)
                 result == execute_ability(card.ability, target_card # NoCard)
             IN  IF result.success
                 THEN _apply_ability_result(log_event(b, "uses_ability"), card_owner, result)
                 ELSE log_event(b, "ability_failed")

\* _trigger_on_play_abilities with the second participant's card first
_trigger_on_play_abilities_SecondFirst(b) ==
    LET b1 == IF b.player2_card # NoCard
              THEN _trigger_ability(b, b.player2_id, "on_play") ELSE b
    IN  IF b1.player1_card # NoCard
        THEN _trigger_ability(b1, b1.player1_id, "on_play") ELSE b1

_trigger_on_play_abilities(b) ==
    LET b1 == IF b.player1_card # NoCard
              THEN _trigger_ability(b, b.player1_id, "on_play") ELSE b
    IN  IF b1.player2_card # NoCard
        THEN _trigger_ability(b1, b1.player2_id, "on_play") ELSE b1

\* add_card giving the first turn to the participant who submitted last
add_card_TurnToSubmitter(b, player_id, card_data) ==
    LET battle_card == BattleCard(card_data, player_id)
    IN  IF player_id # b.player1_id /\ player_id # b.player2_id
        THEN [battle |-> b, ret |-> FALSE]
        ELSE LET b1 == SetCard(b, player_id, battle_card)
             IN  IF b1.player1_card # NoCard /\ b1.player2_card # NoCard
                 THEN [battle |-> _trigger_on_play_abilities(
                                     log_event([b1 EXCEPT !.state = "in_progress",
                                                          !.current_turn = player_id],
                                               "battle_begins")),
                       ret |-> TRUE]
                 ELSE [battle |-> b1, ret |-> TRUE]

\* returns the battle after the call and the bool returned
add_card(b, player_id, card_data) ==
    LET battle_card == BattleCard(card_data, player_id)
    IN  IF player_id # b.player1_id /\ player_id # b.player2_id
        THEN [battle |-> b, ret |-> FALSE]
        ELSE LET b1 == SetCard(b, player_id, battle_card)
             IN  IF b1.player1_card # NoCard /\ b1.player2_card # NoCard
                 THEN [battle |-> _trigger_on_play_abilities(
                                     log_event([b1 EXCEPT !.state = "in_progress"], "battle_begins")),
                       ret |-> TRUE]
                 ELSE [battle |-> b1, ret |-> TRUE]

\* the dict attack returns, with the keys the callers read
AttackResult(success, message, dodged, damage_dealt, target_defeated, winner) ==
    [success |-> success, message |-> message, dodged |-> dodged,
     damage_dealt |-> damage_dealt, target_defeated |-> target_defeated, winner |-> winner]

AttackFailure(message) == AttackResult(FALSE, message, FALSE, 0, FALSE, NoPlayer)

\* _execute_attack ending the turn before the death check
_execute_attack_EndsTurnOnKill(b, attacker_id, roll) ==
    LET defender_id == get_opponent_id(b, attacker_id)
        attacker == get_player_card(b, attacker_id)
        defender == get_opponent_card(b, attacker_id)
        attack_damage == attacker.current_attack
    IN  IF can_dodge_attack(defender, roll)
        THEN [battle |-> _end_turn(SetCard(log_event(b, "dodged"), attacker_id,
                                           [attacker EXCEPT !.has_attacked = TRUE])),
              ret |-> AttackResult(TRUE, "dodged the attack", TRUE, 0, FALSE, NoPlayer)]
        ELSE LET td == take_damage(defender, attack_damage)
                 b1 == SetCard(SetCard(b, defender_id, td.card), attacker_id,
                               [attacker EXCEPT !.has_attacked = TRUE])
                 b2 == _end_turn(log_event(b1, "attacks"))
             IN  IF ~is_alive(td.card)
                 THEN [battle |-> _end_battle(log_event(b2, "defeated"), attacker.owner_id),
                       ret |-> AttackResult(TRUE, "defeats", FALSE, td.ret, TRUE, attacker.owner_id)]
                 ELSE [battle |-> b2,
                       ret |-> AttackResult(TRUE, "deals damage", FALSE, td.ret, FALSE, NoPlayer)]

_execute_attack(b, attacker_id, roll) ==
    LET defender_id == get_opponent_id(b, attacker_id)
        attacker == get_player_card(b, attacker_id)
        defender == get_opponent_card(b, attacker_id)
        attack_damage == attacker.current_attack
    IN  IF can_dodge_attack(defender, roll)
        THEN [battle |-> _end_turn(SetCard(log_event(b, "dodged"), attacker_id,
                                           [attacker EXCEPT !.has_attacked = TRUE])),
              ret |-> AttackResult(TRUE, "dodged the attack", TRUE, 0, FALSE, NoPlayer)]
        ELSE LET td == take_damage(defender, attack_damage)
                 b1 == SetCard(SetCard(b, defender_id, td.card), attacker_id,
                               [attacker EXCEPT !.has_attacked = TRUE])
                 b2 == log_event(b1, "attacks")
             IN  IF ~is_alive(td.card)
                 THEN [battle |-> _end_battle(log_event(b2, "defeated"), attacker.owner_id),
                       ret |-> AttackResult(TRUE, "defeats", FALSE, td.ret, TRUE, attacker.owner_id)]
                 ELSE [battle |-> _end_turn(b2),
                       ret |-> AttackResult(TRUE, "deals damage", FALSE, td.ret, FALSE, NoPlayer)]

\* attack logging the attempt it rejects for the wrong turn
attack_LogsRejected(b, attacker_id, roll) ==
    LET attacker_card == get_player_card(b, attacker_id)
        defender_card == get_opponent_card(b, attacker_id)
    IN  IF ~is_player_turn(b, attacker_id)
        THEN [battle |-> log_event(b, "rejected"), ret |-> AttackFailure("Not your turn!")]
        ELSE IF b.phase # "attack"
        THEN [battle |-> b, ret |-> AttackFailure("Not the attack phase!")]
        ELSE IF attacker_card = NoCard \/ defender_card = NoCard
        THEN [battle |-> b, ret |-> AttackFailure("Missing battle cards!")]
        ELSE IF ~attacker_card.can_attack \/ attacker_card.has_attacked
        THEN [battle |-> b, ret |-> AttackFailure("Card cannot attack!")]
        ELSE IF ~is_alive(attacker_card)
        THEN [battle |-> b, ret |-> AttackFailure("Dead cards cannot attack!")]
        ELSE _execute_attack(b, attacker_id, roll)

attack(b, attacker_id, roll) ==
    LET attacker_card == get_player_card(b, attacker_id)
        defender_card == get_opponent_card(b, attacker_id)
    IN  IF ~is_player_turn(b, attacker_id)
        THEN [battle |-> b, ret |-> AttackFailure("Not your turn!")]
        ELSE IF b.phase # "attack"
        THEN [battle |-> b, ret |-> AttackFailure("Not the attack phase!")]
        ELSE IF attacker_card = NoCard \/ defender_card = NoCard
        THEN [battle |-> b, ret |-> AttackFailure("Missing battle cards!")]
        ELSE IF ~attacker_card.can_attack \/ attacker_card.has_attacked
        THEN [battle |-> b, ret |-> AttackFailure("Card cannot attack!")]
        ELSE IF ~is_alive(attacker_card)
        THEN [battle |-> b, ret |-> AttackFailure("Dead cards cannot attack!")]
        ELSE _execute_attack(b, attacker_id, roll)

(* card_library.py, pack_system.py, card_manager.py: pack tokens and packs *)

PackTypes == {"standard"}

\* CardLibrary.rarities, in the insertion order PackSystem.open_pack walks
rarities ==
    << [rarity |-> "common",    drop_rate |-> 60],
       [rarity |-> "rare",      drop_rate |-> 25],
       [rarity |-> "epic",      drop_rate |-> 10],
       [rarity |-> "legendary", drop_rate |-> 4],
       [rarity |-> "mythic",    drop_rate |-> 1] >>

\* CardLibrary._card_library: one entry per tier that has entries, by name
\* and rarity (the library joins common, rare, epic and legendary cards; it
\* has no mythic card)
_card_library ==
    { [name |-> "Fire Sprite", rarity |-> "common"],
      [name |-> "Fire Wolf",   rarity |-> "rare"],
      [name |-> "Fire Dragon", rarity |-> "epic"],
      [name |-> "Phoenix God", rarity |-> "legendary"] }

NoChoice == [name |-> "", rarity |-> ""]

get_cards_by_rarity(rarity) == { card \in _card_library : card.rarity = rarity }

\* table cards: the library rows in insertion order; card_id is SERIAL /
\* AUTOINCREMENT, the position of the row
cards == <<"Fire Sprite", "Fire Wolf", "Fire Dragon", "Phoenix God">>

\* CardManager.get_card_by_name(name)[0]: the card_id, 0 for no row
get_card_by_name(card_name) ==
    IF \E i \in 1..Len(cards) : cards[i] = card_name
    THEN CHOOSE i \in 1..Len(cards) : cards[i] = card_name
    ELSE 0

\* a table without rows; fetch_one on a table: the row as a tuple, or <<>> (None)
NoRows == [key \in {} |-> 0]

fetch_one(table, key) == IF key \in DOMAIN table THEN <<table[key]>> ELSE <<>>

\* the table after UPDATE ... SET quantity (of an existing row) or INSERT
SetQuantity(table, key, quantity) ==
    [k \in DOMAIN table \cup {key} |-> IF k = key THEN quantity ELSE table[k]]

\* PackSystem.add_pack_tokens: the table after it (postgresql: one upsert;
\* sqlite: SELECT, then UPDATE or INSERT)
add_pack_tokens(table, user_id, pack_type, quantity) ==
    LET existing == fetch_one(table, <<user_id, pack_type>>)
    IN  IF existing # <<>>
        THEN SetQuantity(table, <<user_id, pack_type>>, existing[1] + quantity)
        ELSE SetQuantity(table, <<user_id, pack_type>>, quantity)

\* CardManager.add_card_to_collection: the table after it
add_card_to_collection(table, user_id, card_id, quantity) ==
    LET existing == fetch_one(table, <<user_id, card_id>>)
    IN  IF existing # <<>>
        THEN SetQuantity(table, <<user_id, card_id>>, existing[1] + quantity)
        ELSE SetQuantity(table, <<user_id, card_id>>, quantity)

\* consume_pack_token that takes a token the player does not have
consume_pack_token_NoCheck(table, user_id, pack_type, db_ok) ==
    LET result == fetch_one(table, <<user_id, pack_type>>)
    IN  IF ~db_ok
        THEN [user_packs |-> table, ret |-> FALSE]
        ELSE [user_packs |-> SetQuantity(table, <<user_id, pack_type>>,
                                (IF result = <<>> THEN 0 ELSE result[1]) - 1),
              ret |-> TRUE]

\* consume_pack_token that reports success without the UPDATE
consume_pack_token_NoUpdate(table, user_id, pack_type, db_ok) ==
    LET result == fetch_one(table, <<user_id, pack_type>>)
    IN  IF ~db_ok \/ result = <<>> \/ result[1] <= 0
        THEN [user_packs |-> table, ret |-> FALSE]
        ELSE [user_packs |-> table, ret |-> TRUE]

\* PackSystem.consume_pack_token, run without interruption; db_ok: neither
\* the SELECT nor the UPDATE raised (if one did, the except returns False
\* and no UPDATE was committed)
consume_pack_token(table, user_id, pack_type, db_ok) ==
    LET result == fetch_one(table, <<user_id, pack_type>>)
    IN  IF ~db_ok \/ result = <<>> \/ result[1] <= 0
        THEN [user_packs |-> table, ret |-> FALSE]
        ELSE [user_packs |-> SetQuantity(table, <<user_id, pack_type>>, result[1] - 1),
              ret |-> TRUE]

\* the inner loop of open_pack over CardLibrary.rarities, from entry i
RECURSIVE walk_rarities(_, _, _)
walk_rarities(roll, i, cumulative) ==
    IF i > Len(rarities)
    THEN "common"
    ELSE IF roll <= cumulative + rarities[i].drop_rate
         THEN rarities[i].rarity
         ELSE walk_rarities(roll, i + 1, cumulative + rarities[i].drop_rate)

\* the walk with the comparison roll < cumulative
selected_rarity_Strict(roll) == walk_rarities(roll + 1, 1, 0)

\* selected_rarity after the inner loop of open_pack, for a roll
selected_rarity(roll) == walk_rarities(roll, 1, 0)

\* the outer loop of open_pack, one iteration per element of draws:
\* roll (random.randint), choice (random.choice of the tier; none is made
\* for an empty tier, nor any query) and db_ok (get_card_by_name returned
\* the row and add_card_to_collection did not fail; both swallow their
\* exceptions)
RECURSIVE generate_cards(_, _, _, _)
generate_cards(table, user_id, draws, pack_cards) ==
    IF draws = <<>>
    THEN [user_cards |-> table, pack_cards |-> pack_cards]
    ELSE LET draw == Head(draws)
             rarity_cards == get_cards_by_rarity(selected_rarity(draw.roll))
         IN  IF rarity_cards = {}
             THEN generate_cards(table, user_id, Tail(draws), pack_cards)
             ELSE generate_cards(
                    IF draw.db_ok
                    THEN add_card_to_collection(table, user_id,
                                                get_card_by_name(draw.choice.name), 1)
                    ELSE table,
                    user_id, Tail(draws), Append(pack_cards, draw.choice))

\* what random.randint and random.choice can hand one iteration of open_pack
Draws(rolls) ==
    UNION { IF get_cards_by_rarity(selected_rarity(roll)) = {}
            THEN { [roll |-> roll, choice |-> NoChoice, db_ok |-> TRUE] }
            ELSE { [roll |-> roll, choice |-> choice, db_ok |-> db_ok] :
                     choice \in get_cards_by_rarity(selected_rarity(roll)),
                     db_ok \in BOOLEAN } : roll \in rolls }

----------------------------------------------------------------------------
(* battle_system.py: BattleManager, and the handlers of battle_ui.py *)

get_battle_Unregistered(battle_id) == battles[battle_id]

get_battle(battle_id) ==
    IF battle_id \in active_battles THEN battles[battle_id] ELSE NoBattle

IsActive(b) == b.state \in {"card_selection", "in_progress"}

\* the registered battles get_player_active_battle can return for the player
get_player_active_battle(player_id) ==
    { id \in active_battles :
        /\ (battles[id].player1_id = player_id \/ battles[id].player2_id = player_id)
        /\ IsActive(battles[id]) }

NoResult == AttackFailure("")

Ret(op, battle_id, player_id, ok, result) ==
    [op |-> op, battle_id |-> battle_id, player_id |-> player_id, ok |-> ok, result |-> result]

DbTypes == {"postgresql", "sqlite"}

\* result[0] of create_battle's query for the row with id row_id:
\* postgresql: INSERT ... RETURNING battle_id in fetch_one;
\* sqlite: the INSERT in execute_query, on a connection that is then closed,
\* and SELECT last_insert_rowid() in fetch_one on a new connection, which
\* has inserted nothing
InsertedBattleId(type, row_id) ==
    IF type = "postgresql" THEN row_id ELSE 0

\* BattleManager.create_battle; db_ok: the database answered the INSERT
\* (if not, fetch_one returns None or execute_query raises: None is returned)
create_battle(player1_id, player2_id, db_ok) ==
    /\ next_id <= MaxBattles
    /\ IF db_ok
       THEN LET battle_id == InsertedBattleId(db_type, next_id)
            IN  /\ battles' = [battles EXCEPT ![battle_id] = Battle(player1_id, player2_id)]
                /\ active_battles' = active_battles \cup {battle_id}
                /\ next_id' = next_id + 1
                /\ last_attacker' = [last_attacker EXCEPT ![battle_id] = NoPlayer]
                /\ ret' = Ret("create_battle", battle_id, player1_id, TRUE, NoResult)
       ELSE /\ UNCHANGED <<battles, active_battles, next_id, last_attacker>>
            /\ ret' = Ret("create_battle", 0, player1_id, FALSE, NoResult)
    /\ UNCHANGED <<db_type, unit, user_packs, user_cards, calls>>

\* CardSelectionView.card_selected, up to the await of its response
card_selected_sync(battle_id, user_id, card_data) ==
    /\ battles[battle_id] # NoBattle
    /\ Len(battles[battle_id].battle_log) < MaxLog
    /\ IF get_battle(battle_id) = NoBattle
       THEN /\ UNCHANGED battles
            /\ ret' = Ret("add_card", battle_id, user_id, FALSE, AttackFailure("Battle not found!"))
       ELSE LET r == add_card(battles[battle_id], user_id, card_data)
            IN  /\ battles' = [battles EXCEPT ![battle_id] = r.battle]
                /\ ret' = Ret("add_card", battle_id, user_id, r.ret, NoResult)
    /\ UNCHANGED <<db_type, active_battles, next_id, last_attacker, unit,
                   user_packs, user_cards>>

\* card_selected with no other interaction in flight
card_selected(battle_id, user_id, card_data) ==
    /\ card_selected_sync(battle_id, user_id, card_data)
    /\ UNCHANGED calls

\* BattleView.attack_button_callback: Battle.attack, then on a defeat the
\* winner's pack token and finish_battle
\* (the callback's own is_player_turn test is the first test of Battle.attack;
\* rewarded: update_user_xp and add_pack_tokens did not raise)
attack_button_callback_sync(battle_id, user_id, roll) ==
    /\ battles[battle_id] # NoBattle
    /\ battles[battle_id].turn_number <= MaxTurn
    /\ IF get_battle(battle_id) = NoBattle
       THEN /\ UNCHANGED <<battles, active_battles, last_attacker, user_packs>>
            /\ ret' = Ret("attack", battle_id, user_id, FALSE, AttackFailure("Battle not found!"))
       ELSE LET r == attack(battles[battle_id], user_id, roll)
            IN  /\ battles' = [battles EXCEPT ![battle_id] = r.battle]
                /\ ret' = Ret("attack", battle_id, user_id, r.ret.success, r.ret)
                /\ active_battles' = IF r.ret.success /\ r.ret.target_defeated
                                     THEN active_battles \ {battle_id}
                                     ELSE active_battles
                /\ last_attacker' = IF r.ret.success
                                    THEN [last_attacker EXCEPT ![battle_id] = user_id]
                                    ELSE last_attacker
                /\ \E rewarded \in BOOLEAN :
                      user_packs' = IF r.ret.success /\ r.ret.target_defeated /\ rewarded
                                    THEN add_pack_tokens(user_packs, r.ret.winner, "standard", 1)
                                    ELSE user_packs
    /\ UNCHANGED <<db_type, next_id, unit, user_cards>>

\* attack_button_callback with no other interaction in flight
attack_button_callback(battle_id, user_id, roll) ==
    /\ attack_button_callback_sync(battle_id, user_id, roll)
    /\ UNCHANGED calls

\* BattleView.forfeit_button_callback: _end_battle(opponent), the opponent's
\* pack token, then finish_battle
forfeit_button_callback_sync(battle_id, user_id) ==
    /\ battles[battle_id] # NoBattle
    /\ IF get_battle(battle_id) = NoBattle
       THEN /\ UNCHANGED <<battles, active_battles, user_packs>>
            /\ ret' = Ret("forfeit", battle_id, user_id, FALSE, AttackFailure("Battle not found!"))
       ELSE LET opponent_id == get_opponent_id(battles[battle_id], user_id)
            IN  /\ battles' = [battles EXCEPT ![battle_id] = _end_battle(@, opponent_id)]
                /\ active_battles' = active_battles \ {battle_id}
                /\ ret' = Ret("forfeit", battle_id, user_id, TRUE, NoResult)
                /\ \E rewarded \in BOOLEAN :
                      user_packs' = IF rewarded
                                    THEN add_pack_tokens(user_packs, opponent_id, "standard", 1)
                                    ELSE user_packs
    /\ UNCHANGED <<db_type, next_id, last_attacker, unit, user_cards>>

\* forfeit_button_callback with no other interaction in flight
forfeit_button_callback(battle_id, user_id) ==
    /\ forfeit_button_callback_sync(battle_id, user_id)
    /\ UNCHANGED calls

\* BattleCard.take_damage called on the stand-alone card
unit_take_damage(damage) ==
    /\ LET r == take_damage(unit.card, damage)
       IN  unit' = [card |-> r.card, before |-> unit.card, damage |-> damage,
                    ret |-> r.ret, calls |-> 1]
    /\ UNCHANGED <<db_type, battles, active_battles, next_id, ret, last_attacker,
                   user_packs, user_cards, calls>>

\* ChallengeView.__init__
ChallengeView(challenger_id, opponent_id, battle_id) ==
    [challenger_id |-> challenger_id, opponent_id |-> opponent_id, battle_id |-> battle_id,
     challenge_accepted |-> FALSE, challenge_cancelled |-> FALSE]

\* ChallengeView.accept_challenge on the view in unit
accept_challenge(user_id) ==
    /\ IF user_id # unit.opponent_id
       THEN /\ UNCHANGED unit
            /\ ret' = Ret("accept_challenge", unit.battle_id, user_id, FALSE,
                          AttackFailure("Only the challenged player can accept this challenge!"))
       ELSE IF unit.challenge_accepted \/ unit.challenge_cancelled
       THEN /\ UNCHANGED unit
            /\ ret' = Ret("accept_challenge", unit.battle_id, user_id, FALSE,
                          AttackFailure("This challenge has already been responded to!"))
       ELSE /\ unit' = [unit EXCEPT !.challenge_accepted = TRUE]
            /\ IF get_battle(unit.battle_id) = NoBattle
               THEN ret' = Ret("accept_challenge", unit.battle_id, user_id, FALSE,
                               AttackFailure("Battle not found!"))
               ELSE ret' = Ret("accept_challenge", unit.battle_id, user_id, TRUE, NoResult)
    /\ UNCHANGED <<db_type, battles, active_battles, next_id, last_attacker,
                   user_packs, user_cards, calls>>

\* ChallengeView.reject_challenge on the view in unit. BattleManager has no
\* method cancel_battle: the call raises AttributeError and the handler ends
\* there, after it has set challenge_cancelled
reject_challenge(user_id) ==
    /\ IF user_id # unit.opponent_id
       THEN /\ UNCHANGED unit
            /\ ret' = Ret("reject_challenge", unit.battle_id, user_id, FALSE,
                          AttackFailure("Only the challenged player can reject this challenge!"))
       ELSE IF unit.challenge_accepted \/ unit.challenge_cancelled
       THEN /\ UNCHANGED unit
            /\ ret' = Ret("reject_challenge", unit.battle_id, user_id, FALSE,
                          AttackFailure("This challenge has already been responded to!"))
       ELSE /\ unit' = [unit EXCEPT !.challenge_cancelled = TRUE]
            /\ ret' = Ret("reject_challenge", unit.battle_id, user_id, FALSE,
                          AttackFailure("AttributeError"))
    /\ UNCHANGED <<db_type, battles, active_battles, next_id, last_attacker,
                   user_packs, user_cards, calls>>

\* ChallengeView.cancel_challenge on the view in unit: as reject_challenge,
\* for the challenger
cancel_challenge(user_id) ==
    /\ IF user_id # unit.challenger_id
       THEN /\ UNCHANGED unit
            /\ ret' = Ret("cancel_challenge", unit.battle_id, user_id, FALSE,
                          AttackFailure("Only the challenger can cancel this challenge!"))
       ELSE IF unit.challenge_accepted \/ unit.challenge_cancelled
       THEN /\ UNCHANGED unit
            /\ ret' = Ret("cancel_challenge", unit.battle_id, user_id, FALSE,
                          AttackFailure("This challenge has already been responded to!"))
       ELSE /\ unit' = [unit EXCEPT !.challenge_cancelled = TRUE]
            /\ ret' = Ret("cancel_challenge", unit.battle_id, user_id, FALSE,
                          AttackFailure("AttributeError"))
    /\ UNCHANGED <<db_type, battles, active_battles, next_id, last_attacker,
                   user_packs, user_cards, calls>>

\* no execute_ability call yet
NoAbilityResult ==
    [success |-> FALSE, effect_type |-> "", result |-> EffectResult(FALSE, "", 0),
     message |-> ""]

\* AbilitySystem.can_trigger_ability called stand-alone
unit_can_trigger_ability(ability_text, trigger_condition) ==
    /\ unit' = [unit EXCEPT !.op = "can_trigger_ability",
                            !.ability_text = ability_text,
                            !.trigger_condition = trigger_condition,
                            !.can_trigger = can_trigger_ability(ability_text, trigger_condition),
                            !.ret = NoAbilityResult]
    /\ UNCHANGED <<db_type, battles, active_battles, next_id, ret, last_attacker,
                   user_packs, user_cards, calls>>

\* execute_ability that applies a damage effect to the target dict itself
unit_execute_ability_WritesTarget(ability_text) ==
    /\ LET r == execute_ability(ability_text, unit.target_data # NoCard)
       IN  unit' = [unit EXCEPT !.op = "execute_ability",
                                !.ability_text = ability_text,
                                !.trigger_condition = "",
                                !.can_trigger = FALSE,
                                !.target_data =
                                    IF r.effect_type = "damage" /\ r.result.applied
                                    THEN [@ EXCEPT !.current_health = @ - r.result.val]
                                    ELSE @,
                                !.ret = r]
    /\ UNCHANGED <<db_type, battles, active_battles, next_id, ret, last_attacker,
                   user_packs, user_cards, calls>>

\* AbilitySystem.execute_ability(ability_text, caster_data, target_data)
\* called stand-alone on the dicts in unit; the method and its helpers
\* assign to neither dict
unit_execute_ability(ability_text) ==
    /\ unit' = [unit EXCEPT !.op = "execute_ability",
                            !.ability_text = ability_text,
                            !.trigger_condition = "",
                            !.can_trigger = FALSE,
                            !.ret = execute_ability(ability_text, unit.target_data # NoCard)]
    /\ UNCHANGED <<db_type, battles, active_battles, next_id, ret, last_attacker,
                   user_packs, user_cards, calls>>

\* PackSystem.open_pack(user_id, pack_type, cards_per_pack), with
\* cards_per_pack = Len(draws); ret.ok: a card list was returned (not None)
open_pack(user_id, pack_type, draws, db_ok) ==
    /\ LET consumed == consume_pack_token(user_packs, user_id, pack_type, db_ok)
           generated == generate_cards(user_cards, user_id, draws, <<>>)
       IN  IF ~consumed.ret
           THEN /\ UNCHANGED <<user_packs, user_cards>>
                /\ ret' = Ret("open_pack", 0, user_id, FALSE,
                              [pack_type |-> pack_type, cards_per_pack |-> Len(draws),
                               pack_cards |-> <<>>])
           ELSE /\ user_packs' = consumed.user_packs
                /\ user_cards' = generated.user_cards
                /\ ret' = Ret("open_pack", 0, user_id, TRUE,
                              [pack_type |-> pack_type, cards_per_pack |-> Len(draws),
                               pack_cards |-> generated.pack_cards])
    /\ UNCHANGED <<db_type, battles, active_battles, next_id, last_attacker, unit, calls>>

\* the rarity loop of open_pack on its own, for one roll
roll_rarity(roll) ==
    /\ ret' = Ret("selected_rarity", 0, 0, TRUE,
                  [roll |-> roll, selected_rarity |-> selected_rarity(roll)])
    /\ UNCHANGED <<db_type, battles, active_battles, next_id, last_attacker, unit,
                   user_packs, user_cards, calls>>

NoCalls == <<>>

Call(user_id, pack_type) ==
    [user_id |-> user_id, pack_type |-> pack_type, pc |-> "select",
     result |-> <<>>, ret |-> FALSE]

\* consume_pack_token, call i, first statement: the SELECT and the test of
\* its result (the query commits and closes its own connection)
consume_pack_token_select(i) ==
    /\ calls[i].pc = "select"
    /\ LET result == fetch_one(user_packs, <<calls[i].user_id, calls[i].pack_type>>)
       IN  calls' = [calls EXCEPT ![i] =
                        IF result = <<>> \/ result[1] <= 0
                        THEN [@ EXCEPT !.pc = "done", !.ret = FALSE]
                        ELSE [@ EXCEPT !.pc = "update", !.result = result]]
    /\ UNCHANGED <<db_type, battles, active_battles, next_id, ret, last_attacker, unit,
                   user_packs, user_cards>>

\* consume_pack_token, call i, second statement: the UPDATE to the quantity
\* computed from the SELECT's result, and return True
consume_pack_token_update(i) ==
    /\ calls[i].pc = "update"
    /\ user_packs' = SetQuantity(user_packs, <<calls[i].user_id, calls[i].pack_type>>,
                                 calls[i].result[1] - 1)
    /\ calls' = [calls EXCEPT ![i] = [@ EXCEPT !.pc = "done", !.ret = TRUE]]
    /\ UNCHANGED <<db_type, battles, active_battles, next_id, ret, last_attacker, unit,
                   user_cards>>

----------------------------------------------------------------------------
(* Specifications *)

NoUnit == [card |-> NoCard, before |-> NoCard, damage |-> 0, ret |-> 0, calls |-> 0]

\* one battle from its construction: the first create_battle(1, 2) has
\* registered Battle(1, 2); player 3 is not a participant
Init ==
    /\ db_type \in DbTypes
    /\ battles = [id \in BattleIds |->
                    IF id = InsertedBattleId(db_type, 1) THEN Battle(1, 2) ELSE NoBattle]
    /\ active_battles = {InsertedBattleId(db_type, 1)}
    /\ next_id = 2
    /\ ret = Ret("", 0, 0, FALSE, NoResult)
    /\ last_attacker = [id \in BattleIds |-> NoPlayer]
    /\ unit = NoUnit
    /\ user_packs = NoRows /\ user_cards = NoRows /\ calls = NoCalls

Next ==
    \/ \E id \in BattleIds, p \in Players, c \in CardLibrary : card_selected(id, p, c)
    \/ \E id \in BattleIds, p \in Players, roll \in DodgeRolls : attack_button_callback(id, p, roll)
    \/ \E id \in BattleIds, p \in Players : forfeit_button_callback(id, p)

Spec == Init /\ [][Next]_vars

\* the session registry from its construction: BattleManager.__init__, then
\* battles created and finished (by forfeit)
InitManager ==
    /\ db_type \in DbTypes
    /\ battles = [id \in BattleIds |-> NoBattle]
    /\ active_battles = {}
    /\ next_id = 1
    /\ ret = Ret("", 0, 0, FALSE, NoResult)
    /\ last_attacker = [id \in BattleIds |-> NoPlayer]
    /\ unit = NoUnit
    /\ user_packs = NoRows /\ user_cards = NoRows /\ calls = NoCalls

NextManager ==
    \/ \E p1, p2 \in Players, db_ok \in BOOLEAN :
            p1 # p2 /\ create_battle(p1, p2, db_ok)
    \/ \E id \in BattleIds, p \in Players : forfeit_button_callback(id, p)

SpecManager == InitManager /\ [][NextManager]_vars

\* Battle.attack and its callees as a unit: the Battle object the method is
\* called on is an input, drawn from the battles two submissions produce, in
\* the attack phase (TurnPhase.ATTACK)
StartedBattle(c1, c2) ==
    [add_card(add_card(Battle(1, 2), 1, c1).battle, 2, c2).battle EXCEPT !.phase = "attack"]

InitAttack ==
    /\ db_type = "postgresql"
    /\ \E c1, c2 \in CardLibrary :
          battles = [id \in BattleIds |-> IF id = 1 THEN StartedBattle(c1, c2) ELSE NoBattle]
    /\ active_battles = {1}
    /\ next_id = 2
    /\ ret = Ret("", 0, 0, FALSE, NoResult)
    /\ last_attacker = [id \in BattleIds |-> NoPlayer]
    /\ unit = NoUnit
    /\ user_packs = NoRows /\ user_cards = NoRows /\ calls = NoCalls

NextAttack ==
    \/ \E p \in Players, roll \in DodgeRolls : attack_button_callback(1, p, roll)
    \/ \E p \in Players : forfeit_button_callback(1, p)

SpecAttack == InitAttack /\ [][NextAttack]_vars

\* BattleCard.take_damage as a unit: the card it is called on is an input
UnitCard(h, s, a) ==
    [BattleCard(CHOOSE c \in CardLibrary : c.name = "Water Drop", 1)
        EXCEPT !.current_health = h, !.max_health = MaxStat,
               !.shield_amount = s, !.damage_reduction = a]

InitCard ==
    /\ db_type = "postgresql"
    /\ battles = [id \in BattleIds |-> NoBattle]
    /\ active_battles = {}
    /\ next_id = 1
    /\ ret = Ret("", 0, 0, FALSE, NoResult)
    /\ last_attacker = [id \in BattleIds |-> NoPlayer]
    /\ \E h, s, a \in 0..MaxStat :
          unit = [card |-> UnitCard(h, s, a), before |-> NoCard, damage |-> 0,
                  ret |-> 0, calls |-> 0]
    /\ user_packs = NoRows /\ user_cards = NoRows /\ calls = NoCalls

NextCard == \E d \in -1..MaxDamage : unit_take_damage(d)

SpecCard == InitCard /\ [][NextCard]_vars

\* the ability system as a unit, called as Battle._trigger_ability calls it:
\* caster_data and target_data are the to_dict copies of the cards of a
\* battle, target_data None (NoCard) while the opponent has no card
AbilityTexts == DOMAIN _ability_registry \cup {"", "None", "Blink: Not in the registry"}

TriggerConditions == {"on_play", "on_attack", "on_damage", "on_death", "passive"}

AbilityBattles ==
    { add_card(Battle(1, 2), 1, c1).battle : c1 \in CardLibrary }
        \cup { StartedBattle(c1, c2) : c1, c2 \in CardLibrary }

InitAbility ==
    /\ db_type = "postgresql"
    /\ \E b \in AbilityBattles :
          /\ battles = [id \in BattleIds |-> IF id = 1 THEN b ELSE NoBattle]
          /\ unit = [op |-> "", ability_text |-> "", trigger_condition |-> "",
                     caster_data |-> to_dict(b.player1_card),
                     target_data |-> IF b.player2_card = NoCard THEN NoCard
                                     ELSE to_dict(b.player2_card),
                     can_trigger |-> FALSE, ret |-> NoAbilityResult]
    /\ active_battles = {1}
    /\ next_id = 2
    /\ ret = Ret("", 0, 0, FALSE, NoResult)
    /\ last_attacker = [id \in BattleIds |-> NoPlayer]
    /\ user_packs = NoRows /\ user_cards = NoRows /\ calls = NoCalls

NextAbility ==
    \/ \E a \in AbilityTexts, c \in TriggerConditions : unit_can_trigger_ability(a, c)
    \/ \E a \in AbilityTexts : unit_execute_ability(a)

SpecAbility == InitAbility /\ [][NextAbility]_vars

\* card_library.py: the catalogue entries with an attack debuff, a stun or
\* an on-attack ability, and cards for them to meet: one card for each
\* effect that changes a stat, one without ability
EffectCards ==
    { [name |-> "Cursed Spirit",  attack |-> 2, health |-> 1, ability |-> "Curse: Reduce enemy attack by 1"],
      [name |-> "Earth Titan",    attack |-> 7, health |-> 6, ability |-> "Earthquake: Stun all enemies"],
      [name |-> "Fire Wolf",      attack |-> 4, health |-> 3, ability |-> "Burn: Deal 1 extra damage"],
      [name |-> "Lightning Bird", attack |-> 3, health |-> 3, ability |-> "Shock: Stun target"],
      [name |-> "Water Drop",     attack |-> 1, health |-> 3, ability |-> "None"],
      [name |-> "Radiant Orb",    attack |-> 0, health |-> 3, ability |-> "Shield: Absorb next attack"],
      [name |-> "Zephyr Dancer",  attack |-> 1, health |-> 1, ability |-> "Evasion: 50% chance to dodge attacks"],
      [name |-> "Tide Caller",    attack |-> 1, health |-> 4, ability |-> "Heal: Restore 1 health when played"],
      [name |-> "Cinder Beast",   attack |-> 2, health |-> 3, ability |-> "Burn: Deal 1 damage when played"],
      [name |-> "Stone Beetle",   attack |-> 2, health |-> 1, ability |-> "Armor: Reduce damage by 1"] }

\* battles of these cards: from the second submission (one card is in, the
\* other is submitted through card_selected), and, for Battle.attack, from
\* the started battle in the attack phase
InitEffects ==
    /\ db_type = "postgresql"
    /\ \/ \E p \in {1, 2}, c \in EffectCards :
             battles = [id \in BattleIds |->
                          IF id = 1 THEN add_card(Battle(1, 2), p, c).battle ELSE NoBattle]
       \/ \E c1, c2 \in EffectCards :
             battles = [id \in BattleIds |->
                          IF id = 1 THEN StartedBattle(c1, c2) ELSE NoBattle]
    /\ active_battles = {1}
    /\ next_id = 2
    /\ ret = Ret("", 0, 0, FALSE, NoResult)
    /\ last_attacker = [id \in BattleIds |-> NoPlayer]
    /\ unit = NoUnit
    /\ user_packs = NoRows /\ user_cards = NoRows /\ calls = NoCalls

\* (submissions to a battle that has started are explored in Spec)
NextEffects ==
    \/ \E p \in Players, c \in EffectCards :
          battles[1].state = "card_selection" /\ card_selected(1, p, c)
    \/ \E p \in Players, roll \in DodgeRolls : attack_button_callback(1, p, roll)
    \/ \E p \in Players : forfeit_button_callback(1, p)

SpecEffects == InitEffects /\ [][NextEffects]_vars

\* for what eventually happens to a battle: one battle of three catalogue
\* cards (one kills on play), from its construction and, for Battle.attack,
\* from its start in the attack phase
LiveCards == { c \in CardLibrary : c.name \in {"Fire Sprite", "Water Drop", "Cinder Beast"} }

InitLive ==
    /\ db_type = "postgresql"
    /\ \/ battles = [id \in BattleIds |-> IF id = 1 THEN Battle(1, 2) ELSE NoBattle]
       \/ \E c1, c2 \in LiveCards :
             /\ StartedBattle(c1, c2).state = "in_progress"
             /\ battles = [id \in BattleIds |->
                             IF id = 1 THEN StartedBattle(c1, c2) ELSE NoBattle]
    /\ active_battles = {1}
    /\ next_id = 2
    /\ ret = Ret("", 0, 0, FALSE, NoResult)
    /\ last_attacker = [id \in BattleIds |-> NoPlayer]
    /\ unit = NoUnit
    /\ user_packs = NoRows /\ user_cards = NoRows /\ calls = NoCalls

NextLive ==
    \/ \E p \in Players, c \in LiveCards : card_selected(1, p, c)
    \/ \E p \in Players, roll \in DodgeRolls : attack_button_callback(1, p, roll)
    \/ \E p \in Players : forfeit_button_callback(1, p)

\* the buttons of a BattleView pressed on a battle in progress. A BattleView
\* is shown only by a card_selected that leaves the battle in_progress, and
\* nothing but a button press runs a handler: no task of the code acts on a
\* battle by itself
PlayOn ==
    /\ battles[1].state = "in_progress"
    /\ \/ \E p \in Players, roll \in DodgeRolls : attack_button_callback(1, p, roll)
       \/ \E p \in Players : forfeit_button_callback(1, p)

\* the participants of a battle in progress keep pressing its buttons
SpecLive == InitLive /\ [][NextLive]_vars /\ WF_vars(PlayOn)

\* a challenge: create_battle(1, 2) has registered Battle(1, 2) and the
\* ChallengeView of it is shown; the participants answer it, submit cards
\* and forfeit
InitChallenge ==
    /\ db_type = "postgresql"
    /\ battles = [id \in BattleIds |->
                    IF id = 1 THEN Battle(1, 2) ELSE NoBattle]
    /\ active_battles = {1}
    /\ next_id = 2
    /\ ret = Ret("", 0, 0, FALSE, NoResult)
    /\ last_attacker = [id \in BattleIds |-> NoPlayer]
    /\ unit = ChallengeView(1, 2, 1)
    /\ user_packs = NoRows /\ user_cards = NoRows /\ calls = NoCalls

NextChallenge ==
    \/ \E p \in Players : accept_challenge(p)
    \/ \E p \in Players : reject_challenge(p)
    \/ \E p \in Players : cancel_challenge(p)
    \/ \E id \in BattleIds, p \in Players, c \in LiveCards : card_selected(id, p, c)
    \/ \E id \in BattleIds, p \in Players : forfeit_button_callback(id, p)

SpecChallenge == InitChallenge /\ [][NextChallenge]_vars

\* one battle from its construction, its cards submitted and its attack
\* button pressed; the participant whose turn it is keeps pressing it
NextTurns ==
    \/ \E id \in BattleIds, p \in Players, c \in LiveCards : card_selected(id, p, c)
    \/ \E id \in BattleIds, p \in Players, roll \in DodgeRolls :
          attack_button_callback(id, p, roll)

\* an attack by the participant whose turn it is, in a battle in progress
KeepsAttacking ==
    \E id \in BattleIds, roll \in DodgeRolls :
        /\ battles[id] # NoBattle
        /\ battles[id].state = "in_progress"
        /\ attack_button_callback(id, battles[id].current_turn, roll)

SpecTurns == Init /\ [][NextTurns]_vars /\ WF_vars(KeepsAttacking)

(* Interactions in flight on the event loop *)
\* discord.py runs each button callback as a task of one event loop: a
\* callback runs without interruption up to its next await, and the callbacks
\* of battle_ui.py await nothing before the message of their response
\* (battle_ui.py:576-631, 642-685, 331-459). calls holds, per participant,
\* the interaction in flight: pc is "idle" (none), "pending" (dispatched, the
\* callback has not run) or "responding" (the callback is at the await of its
\* response)
Interaction(op, pc, card_data) == [op |-> op, pc |-> pc, card_data |-> card_data]

NoInteraction == Interaction("", "idle", NoCard)

\* the two users the views of battle 1 are shown to
Participants1 == {1, 2}

\* the participant presses a button of a view that is on display: a card of
\* the CardSelectionView (shown while the participant has no card in the
\* battle), or Attack or Forfeit of the BattleView (shown once the battle is
\* in progress; the other participant's copy stays on display after the
\* battle was finished and removed)
dispatch(p, op, card_data) ==
    /\ calls[p].pc = "idle"
    /\ battles[1] # NoBattle
    /\ IF op = "card_selected"
       THEN /\ card_data # NoCard
            /\ battles[1].state = "card_selection"
            /\ get_player_card(battles[1], p) = NoCard
       ELSE /\ card_data = NoCard
            /\ \/ battles[1].state = "in_progress"
               \/ battles[1].state = "finished" /\ 1 \notin active_battles
    /\ calls' = [calls EXCEPT ![p] = Interaction(op, "pending", card_data)]
    /\ UNCHANGED <<db_type, battles, active_battles, next_id, ret, last_attacker,
                   unit, user_packs, user_cards>>

\* the event loop runs the pending callback up to the await of its response
run_callback(p, roll) ==
    /\ calls[p].pc = "pending"
    /\ CASE calls[p].op = "card_selected" ->
                card_selected_sync(1, p, calls[p].card_data)
         [] calls[p].op = "attack_button_callback" ->
                attack_button_callback_sync(1, p, roll)
         [] calls[p].op = "forfeit_button_callback" ->
                forfeit_button_callback_sync(1, p)
    /\ calls' = [calls EXCEPT ![p].pc = "responding"]

\* interaction.response.send_message / edit_message returns
respond(p) ==
    /\ calls[p].pc = "responding"
    /\ calls' = [calls EXCEPT ![p] = NoInteraction]
    /\ UNCHANGED <<db_type, battles, active_battles, next_id, ret, last_attacker,
                   unit, user_packs, user_cards>>

InitConcurrent ==
    /\ db_type = "postgresql"
    /\ \/ battles = [id \in BattleIds |-> IF id = 1 THEN Battle(1, 2) ELSE NoBattle]
       \/ \E c1, c2 \in LiveCards :
             /\ StartedBattle(c1, c2).state = "in_progress"
             /\ battles = [id \in BattleIds |->
                             IF id = 1 THEN StartedBattle(c1, c2) ELSE NoBattle]
    /\ active_battles = {1}
    /\ next_id = 2
    /\ ret = Ret("", 0, 0, FALSE, NoResult)
    /\ last_attacker = [id \in BattleIds |-> NoPlayer]
    /\ unit = NoUnit
    /\ user_packs = NoRows /\ user_cards = NoRows
    /\ calls = [p \in Participants1 |-> NoInteraction]

NextConcurrent ==
    \/ \E p \in Participants1, c \in LiveCards : dispatch(p, "card_selected", c)
    \/ \E p \in Participants1 : dispatch(p, "attack_button_callback", NoCard)
    \/ \E p \in Participants1 : dispatch(p, "forfeit_button_callback", NoCard)
    \/ \E p \in Participants1, roll \in DodgeRolls : run_callback(p, roll)
    \/ \E p \in Participants1 : respond(p)

SpecConcurrent == InitConcurrent /\ [][NextConcurrent]_vars

(* Saving a battle to the store *)
\* BattleManager.save_battle: one UPDATE of the battle's row through
\* execute_query, which raises when the store fails (connection.py:152-154);
\* save_battle catches every exception, prints it and returns None as it does
\* after a successful UPDATE. The record keeps the values handed to the
\* UPDATE, whether the store raised, and what the caller of save_battle got
save_battle(battle_id, battle, db_ok) ==
    [statement |-> "UPDATE battles", battle_id |-> battle_id,
     state |-> battle.state, current_turn |-> battle.current_turn,
     winner_id |-> battle.winner_id,
     raised |-> ~db_ok, returned |-> "None"]

\* BattleManager.finish_battle saves the battle once more before it deletes it
\* from active_battles; saves is the sequence of the handler's saves
finish_battle_saves(saves, battle_id, battle, finished, db_ok) ==
    IF finished THEN Append(saves, save_battle(battle_id, battle, db_ok)) ELSE saves

\* CardSelectionView.card_selected with its save (battle_ui.py:373)
card_selected_saves(battle_id, user_id, card_data, db_ok) ==
    /\ card_selected_sync(battle_id, user_id, card_data)
    /\ calls' = IF ret'.ok
                THEN <<save_battle(battle_id, battles'[battle_id], db_ok)>>
                ELSE NoCalls

\* BattleView.attack_button_callback with its save (battle_ui.py:594) and the
\* save of finish_battle on a defeat (battle_ui.py:625)
attack_button_callback_saves(battle_id, user_id, roll, db_ok, db_ok2) ==
    /\ attack_button_callback_sync(battle_id, user_id, roll)
    /\ calls' = IF ret'.ok
                THEN finish_battle_saves(
                         <<save_battle(battle_id, battles'[battle_id], db_ok)>>,
                         battle_id, battles'[battle_id],
                         ret'.result.target_defeated, db_ok2)
                ELSE NoCalls

\* BattleView.forfeit_button_callback with its save (battle_ui.py:652) and the
\* save of finish_battle (battle_ui.py:683)
forfeit_button_callback_saves(battle_id, user_id, db_ok, db_ok2) ==
    /\ forfeit_button_callback_sync(battle_id, user_id)
    /\ calls' = IF ret'.ok
                THEN finish_battle_saves(
                         <<save_battle(battle_id, battles'[battle_id], db_ok)>>,
                         battle_id, battles'[battle_id], TRUE, db_ok2)
                ELSE NoCalls

NextSave ==
    \/ \E p \in Players, c \in LiveCards, db_ok \in BOOLEAN :
          card_selected_saves(1, p, c, db_ok)
    \/ \E p \in Players, roll \in DodgeRolls, db_ok, db_ok2 \in BOOLEAN :
          attack_button_callback_saves(1, p, roll, db_ok, db_ok2)
    \/ \E p \in Players, db_ok, db_ok2 \in BOOLEAN :
          forfeit_button_callback_saves(1, p, db_ok, db_ok2)

SpecSave == InitLive /\ [][NextSave]_vars

(* The card selection view *)
\* self.cards_per_page of CardSelectionView.__init__
cards_per_page == 5

\* the collection rows of the catalogue, as card_manager.get_user_collection
\* orders them
LibraryOrder ==
    <<"Fire Sprite", "Water Drop", "Ember Scout", "Cinder Beast",
      "Stone Beetle", "Radiant Orb", "Zephyr Dancer">>

CardNamed(name) == CHOOSE c \in CardLibrary : c.name = name

\* the collections a user can hold: a run of the catalogue from any card on
Collections ==
    { [i \in 1..n |-> CardNamed(LibraryOrder[((i + k - 1) % Len(LibraryOrder)) + 1])] :
        n \in 1..Len(LibraryOrder), k \in 0..(Len(LibraryOrder) - 1) }

\* (len(collection) + cards_per_page - 1) // cards_per_page
total_pages(view) == (Len(view.collection) + cards_per_page - 1) \div cards_per_page

\* CardSelectionView.update_card_buttons: one button per card of
\* collection[start_idx:end_idx], each carrying its card_data; children holds
\* the card_data of the card buttons in the order of self.children
update_card_buttons(view) ==
    LET start_idx == (view.current_page - 1) * cards_per_page
        end_idx   == Min(start_idx + cards_per_page, Len(view.collection))
    IN  [view EXCEPT !.children = SubSeq(view.collection, start_idx + 1, end_idx)]

\* CardSelectionView.__init__
CardSelectionView(user_id, battle_id, collection) ==
    update_card_buttons([user_id |-> user_id, battle_id |-> battle_id,
                         collection |-> collection, current_page |-> 1,
                         children |-> <<>>])

\* CardSelectionView.previous_page, pressed by the view's user
previous_page ==
    /\ unit' = update_card_buttons([unit EXCEPT !.current_page = Max(1, @ - 1)])
    /\ UNCHANGED <<db_type, battles, active_battles, next_id, ret, last_attacker,
                   user_packs, user_cards, calls>>

\* CardSelectionView.next_page, pressed by the view's user
next_page ==
    /\ unit' = update_card_buttons(
                  [unit EXCEPT !.current_page = Min(total_pages(unit), @ + 1)])
    /\ UNCHANGED <<db_type, battles, active_battles, next_id, ret, last_attacker,
                   user_packs, user_cards, calls>>

\* CardSelectionView.card_selected run for a press of the card button at
\* position pos of the page, by the view's user: the handler takes the first
\* item of self.children that has card_data, whichever button was pressed.
\* (self.stop() ends the view after its one successful selection: the buttons
\* are pressed while the user has no card in the battle)
card_button_pressed(pos) ==
    /\ pos \in DOMAIN unit.children
    /\ battles[unit.battle_id] # NoBattle
    /\ get_player_card(battles[unit.battle_id], unit.user_id) = NoCard
    /\ LET button == unit.children[1]
       IN  card_selected(unit.battle_id, unit.user_id, button)

InitSelect ==
    /\ db_type = "postgresql"
    /\ \E user_id \in {1, 2}, collection \in Collections :
          /\ unit = CardSelectionView(user_id, 1, collection)
          /\ \/ battles = [id \in BattleIds |-> IF id = 1 THEN Battle(1, 2) ELSE NoBattle]
             \/ \E c \in LiveCards :
                   battles = [id \in BattleIds |->
                                IF id = 1
                                THEN add_card(Battle(1, 2), 3 - user_id, c).battle
                                ELSE NoBattle]
    /\ active_battles = {1}
    /\ next_id = 2
    /\ ret = Ret("", 0, 0, FALSE, NoResult)
    /\ last_attacker = [id \in BattleIds |-> NoPlayer]
    /\ user_packs = NoRows /\ user_cards = NoRows /\ calls = NoCalls

NextSelect ==
    \/ previous_page
    \/ next_page
    \/ \E pos \in 1..cards_per_page : card_button_pressed(pos)

SpecSelect == InitSelect /\ [][NextSelect]_vars

(* The failures returned by attack *)
\* the precondition of an attack that is not met, in the order spec'd for
\* Battle.attack: the battle is not IN_PROGRESS, it is not the attacker's
\* turn, the attacker's card has attacked or cannot attack
FailureCauses == {"not_in_progress", "not_turn", "cannot_attack"}

failure_cause(b, attacker_id) ==
    LET attacker_card == get_player_card(b, attacker_id)
    IN  IF b.state # "in_progress" THEN "not_in_progress"
        ELSE IF b.current_turn # attacker_id THEN "not_turn"
        ELSE IF attacker_card # NoCard
                /\ (~attacker_card.can_attack \/ attacker_card.has_attacked)
        THEN "cannot_attack"
        ELSE "other"

\* BattleView.attack_button_callback; calls keeps, per unmet precondition, the
\* failure Battle.attack last returned for it
attack_button_callback_records(battle_id, user_id, roll) ==
    /\ attack_button_callback_sync(battle_id, user_id, roll)
    /\ LET cause == failure_cause(battles[battle_id], user_id)
       IN  calls' = IF get_battle(battle_id) # NoBattle /\ ~ret'.ok
                       /\ cause \in FailureCauses
                    THEN [calls EXCEPT ![cause] = ret'.result]
                    ELSE calls

card_selected_records(battle_id, user_id, card_data) ==
    /\ card_selected_sync(battle_id, user_id, card_data)
    /\ UNCHANGED calls

forfeit_button_callback_records(battle_id, user_id) ==
    /\ forfeit_button_callback_sync(battle_id, user_id)
    /\ UNCHANGED calls

InitFailures ==
    /\ db_type = "postgresql"
    /\ \/ battles = [id \in BattleIds |-> IF id = 1 THEN Battle(1, 2) ELSE NoBattle]
       \/ \E c1, c2 \in LiveCards :
             /\ StartedBattle(c1, c2).state = "in_progress"
             /\ battles = [id \in BattleIds |->
                             IF id = 1 THEN StartedBattle(c1, c2) ELSE NoBattle]
    /\ active_battles = {1}
    /\ next_id = 2
    /\ ret = Ret("", 0, 0, FALSE, NoResult)
    /\ last_attacker = [id \in BattleIds |-> NoPlayer]
    /\ unit = NoUnit
    /\ user_packs = NoRows /\ user_cards = NoRows
    /\ calls = [cause \in FailureCauses |-> NoResult]

NextFailures ==
    \/ \E p \in Players, c \in LiveCards : card_selected_records(1, p, c)
    \/ \E p \in Players, roll \in DodgeRolls : attack_button_callback_records(1, p, roll)
    \/ \E p \in Players : forfeit_button_callback_records(1, p)

SpecFailures == InitFailures /\ [][NextFailures]_vars

\* random.randint(1, 100) in open_pack and in can_dodge_attack
MaxRoll == 100
Rolls == 1..MaxRoll

\* rolls at the ends of rarity tiers: the last common, the first rare, the mythic
PackRolls == {60, 61, 100}

PackPlayers == {1, 2}

\* the pack system on its own: player 1 holds 0..MaxTokens standard tokens
\* or no row, player 2 no row, nobody owns a card
InitPack ==
    /\ db_type = "postgresql"
    /\ battles = [id \in BattleIds |-> NoBattle]
    /\ active_battles = {}
    /\ next_id = 1
    /\ ret = Ret("", 0, 0, FALSE, NoResult)
    /\ last_attacker = [id \in BattleIds |-> NoPlayer]
    /\ unit = NoUnit
    /\ \E n \in 0..MaxTokens, has_row \in BOOLEAN :
          user_packs = IF has_row THEN add_pack_tokens(NoRows, 1, "standard", n) ELSE NoRows
    /\ user_cards = NoRows
    /\ calls = NoCalls

NextPack ==
    \E user_id \in PackPlayers, pack_type \in PackTypes, cards_per_pack \in 1..MaxCardsPerPack,
       db_ok \in BOOLEAN :
        \E draws \in [1..cards_per_pack -> Draws(PackRolls)] :
            open_pack(user_id, pack_type, draws, db_ok)

SpecPack == InitPack /\ [][NextPack]_vars

\* the rarity selection of open_pack as a unit, over every roll
InitRarity ==
    /\ db_type \in DbTypes
    /\ battles = [id \in BattleIds |-> NoBattle]
    /\ active_battles = {}
    /\ next_id = 1
    /\ ret = Ret("", 0, 0, FALSE, NoResult)
    /\ last_attacker = [id \in BattleIds |-> NoPlayer]
    /\ unit = NoUnit
    /\ user_packs = NoRows /\ user_cards = NoRows /\ calls = NoCalls

NextRarity == \E roll \in Rolls : roll_rarity(roll)

SpecRarity == InitRarity /\ [][NextRarity]_vars

\* MaxCalls consume_pack_token calls by players 1 and 2 in progress at
\* once, sharing the user_packs table; each statement of a call is one step
InitCalls ==
    /\ db_type \in DbTypes
    /\ battles = [id \in BattleIds |-> NoBattle]
    /\ active_battles = {}
    /\ next_id = 1
    /\ ret = Ret("", 0, 0, FALSE, NoResult)
    /\ last_attacker = [id \in BattleIds |-> NoPlayer]
    /\ unit = NoUnit
    /\ \E n1, n2 \in 0..MaxTokens :
          user_packs = add_pack_tokens(add_pack_tokens(NoRows, 1, "standard", n1),
                                       2, "standard", n2)
    /\ user_cards = NoRows
    /\ \E users \in [1..MaxCalls -> PackPlayers] :
          calls = [i \in 1..MaxCalls |-> Call(users[i], "standard")]

NextCalls ==
    \/ \E i \in 1..MaxCalls : consume_pack_token_select(i)
    \/ \E i \in 1..MaxCalls : consume_pack_token_update(i)

SpecCalls == InitCalls /\ [][NextCalls]_vars

----------------------------------------------------------------------------
(* Properties *)

Created == { id \in BattleIds : battles[id] # NoBattle }

Participants(b) == {b.player1_id, b.player2_id}

\* the step is a call of handler op on battle id (every handler sets ret)
Called(op, id) == ret'.op = op /\ ret'.battle_id = id

\* C1: battle state never moves backwards: a FINISHED or CANCELLED battle
\* never changes state again and an IN_PROGRESS battle never returns to
\* CARD_SELECTION, over any sequence of submissions, attacks and forfeits.
C1_StateNeverMovesBackwards ==
    [][\A id \in Created :
          /\ battles[id].state \in {"finished", "cancelled"}
                => battles'[id].state = battles[id].state
          /\ battles[id].state = "in_progress"
                => battles'[id].state # "card_selection"]_vars

\* a battle that the second card submission has just put IN_PROGRESS, both
\* cards alive and without ability
JustStarted(b) ==
    /\ ret.op = "add_card" /\ ret.ok
    /\ b.state = "in_progress"
    /\ b.player1_card # NoCard /\ b.player2_card # NoCard
    /\ b.player1_card.ability = "None" /\ b.player2_card.ability = "None"
    /\ is_alive(b.player1_card) /\ is_alive(b.player2_card)

\* C2: in a battle that has just become IN_PROGRESS (both cards alive, no
\* ability) the first participant's attack is accepted, lowers the defender's
\* health by the attacker's attack, and passes the turn to the second
\* participant with turn number 1.
C2_FirstAttackAccepted ==
    [][\A id \in Created :
          LET b == battles[id]
              a == battles'[id]
          IN  (JustStarted(b) /\ Called("attack", id) /\ ret'.player_id = b.player1_id)
                => /\ ret'.ok
                   /\ a.player2_card.current_health =
                          Max(0, b.player2_card.current_health - b.player1_card.current_attack)
                   /\ a.state = "in_progress"
                          => a.current_turn = b.player2_id /\ a.turn_number = 1]_vars

\* the step is an accepted attack by player p on battle id
AcceptedAttack(id, p) ==
    Called("attack", id) /\ ret'.player_id = p /\ ret'.ok

\* C3: turns alternate strictly: an accepted attack is made by the
\* participant whose turn it is, never by the participant whose attack was
\* the last accepted one (rush or not), and unless it ends the battle it
\* hands current_turn to the other participant.
C3_TurnsAlternate ==
    [][\A id \in Created : \A p \in Players :
          AcceptedAttack(id, p)
            => /\ battles[id].current_turn = p
               /\ last_attacker[id] # p
               /\ ~ret'.result.target_defeated
                     => battles'[id].current_turn = get_opponent_id(battles[id], p)]_vars

\* the first participant, with a rush card, has made the accepted attack of
\* turn 2, after an accepted attack of each participant in turn 1
C3_Witness ==
    \E id \in Created :
        /\ battles[id].player1_card # NoCard
        /\ battles[id].player1_card.has_rush
        /\ ret.op = "attack" /\ ret.battle_id = id /\ ret.ok
        /\ ret.player_id = battles[id].player1_id
        /\ battles[id].turn_number = 2
        /\ battles[id].current_turn = battles[id].player2_id

\* C4: in every reachable state of every battle, current_turn is
\* player1_id or player2_id of that battle.
C4_CurrentTurnIsParticipant ==
    \A id \in Created : battles[id].current_turn \in Participants(battles[id])

\* the turn has come back to the first participant after both have attacked
C4_Witness ==
    \E id \in Created :
        /\ battles[id].turn_number = 2
        /\ battles[id].current_turn = battles[id].player1_id
        /\ last_attacker[id] = battles[id].player2_id

\* C5: a non-dodged attack that brings the defender's health to 0 finishes
\* the battle with the attacker's owner as winner, leaves current_turn and
\* turn_number as they were, and triggers no ability: the log gains the
\* attack, the defeat and the end of the battle, and the attacker's card
\* changes in has_attacked only.
C5_LethalAttackEndsBattle ==
    [][\A id \in Created : \A p \in Players :
          LET b == battles[id]
              a == battles'[id]
          IN  ( /\ AcceptedAttack(id, p)
                /\ ~ret'.result.dodged
                /\ get_opponent_card(a, p).current_health = 0 )
                => /\ a.state = "finished"
                   /\ a.winner_id = p
                   /\ ret'.result.target_defeated /\ ret'.result.winner = p
                   /\ a.current_turn = b.current_turn
                   /\ a.turn_number = b.turn_number
                   /\ a.battle_log = b.battle_log \o
                         << [turn |-> b.turn_number, message |-> "attacks"],
                            [turn |-> b.turn_number, message |-> "defeated"],
                            [turn |-> b.turn_number, message |-> "battle_ends"] >>
                   /\ get_player_card(a, p) =
                         [get_player_card(b, p) EXCEPT !.has_attacked = TRUE]]_vars

\* the second participant's attack has defeated the first participant's card
C5_Witness ==
    \E id \in Created :
        /\ ret.op = "attack" /\ ret.battle_id = id /\ ret.ok
        /\ ret.result.target_defeated
        /\ ret.player_id = battles[id].player2_id
        /\ battles[id].player1_card.current_health = 0
        /\ battles[id].state = "finished"

\* C6: take_damage(d) with d > 0, armor a, shield s and health h takes
\* effective = max(1, d - a), absorbs min(s, effective) from the shield,
\* subtracts min(remainder, h) from health and returns that health loss;
\* with d <= 0 it changes nothing and returns 0.
C6_TakeDamage ==
    unit.calls = 1 =>
        LET c == unit.before
            d == unit.damage
            effective == Max(1, d - c.damage_reduction)
            absorbed == Min(c.shield_amount, effective)
            loss == Min(effective - absorbed, c.current_health)
        IN  IF d > 0
            THEN /\ unit.card = [c EXCEPT !.shield_amount = c.shield_amount - absorbed,
                                          !.current_health = c.current_health - loss]
                 /\ unit.ret = loss
            ELSE unit.card = c /\ unit.ret = 0

\* a hit that armor reduces, the shield absorbs in part and health takes the rest of
C6_Witness ==
    /\ unit.calls = 1
    /\ unit.before.damage_reduction > 0
    /\ unit.damage > unit.before.damage_reduction + 1
    /\ unit.before.shield_amount > 0
    /\ unit.card.shield_amount = 0
    /\ unit.ret > 0
    /\ unit.card.current_health > 0

\* C7: a forfeit by a participant of a registered battle in CARD_SELECTION or
\* IN_PROGRESS, whoever's turn it is, finishes the battle with the other
\* participant as winner, fires no ability and changes no card stat: the
\* cards are as before and the log gains the end of the battle only.
C7_ForfeitEndsBattle ==
    [][\A id \in Created : \A p \in Players :
          LET b == battles[id]
              a == battles'[id]
          IN  ( /\ Called("forfeit", id) /\ ret'.player_id = p
                /\ id \in active_battles
                /\ p \in Participants(b)
                /\ b.state \in {"card_selection", "in_progress"} )
                => /\ a.state = "finished"
                   /\ a.winner_id \in Participants(b) \ {p}
                   /\ a.player1_card = b.player1_card
                   /\ a.player2_card = b.player2_card
                   /\ a.battle_log = Append(b.battle_log,
                         [turn |-> b.turn_number, message |-> "battle_ends"])
                   /\ a.current_turn = b.current_turn
                   /\ a.turn_number = b.turn_number]_vars

\* the second participant has forfeited, on the first participant's turn,
\* a battle in which no card was submitted
C7_Witness ==
    \E id \in Created :
        /\ ret.op = "forfeit" /\ ret.battle_id = id /\ ret.ok
        /\ ret.player_id = battles[id].player2_id
        /\ battles[id].current_turn = battles[id].player1_id
        /\ battles[id].player1_card = NoCard /\ battles[id].player2_card = NoCard
        /\ battles[id].state = "finished"
        /\ battles[id].winner_id = battles[id].player1_id

\* C8: no player is a participant of more than one registered battle in
\* CARD_SELECTION or IN_PROGRESS, and a create succeeds (returns a battle and
\* registers it) only if neither participant has such a battle.
C8_OneActiveBattlePerPlayer ==
    /\ [](\A p \in Players : Cardinality(get_player_active_battle(p)) <= 1)
    /\ [][(ret'.op = "create_battle" /\ ret'.ok)
            => \A p \in Participants(battles'[ret'.battle_id]) :
                  get_player_active_battle(p) = {}]_vars

\* C9: a card submission by a participant who already has a BattleCard in
\* the battle is rejected and leaves the battle as it was.
C9_DuplicateSubmissionRejected ==
    [][\A id \in Created : \A p \in Players :
          ( /\ Called("add_card", id) /\ ret'.player_id = p
            /\ id \in active_battles
            /\ get_player_card(battles[id], p) # NoCard )
            => ~ret'.ok /\ battles'[id] = battles[id]]_vars

\* attack(p) fails a precondition on battle b
FailsPrecondition(b, p) ==
    \/ b.state # "in_progress"
    \/ b.current_turn # p
    \/ get_player_card(b, p) = NoCard
    \/ get_opponent_card(b, p) = NoCard
    \/ ~get_player_card(b, p).can_attack
    \/ get_player_card(b, p).has_attacked
    \/ ~is_alive(get_player_card(b, p))

\* C10: an attack that fails a precondition returns success=false and
\* changes nothing: the battle (card stats, current_turn, turn_number,
\* state, winner, event log) and the registry are as before; and every
\* attack that returns success=false changes nothing.
C10_RejectedAttackChangesNothing ==
    [][\A id \in Created : \A p \in Players :
          (Called("attack", id) /\ ret'.player_id = p /\ id \in active_battles)
            => /\ FailsPrecondition(battles[id], p) => ~ret'.ok
               /\ ~ret'.ok => /\ battles' = battles
                              /\ active_battles' = active_battles
                              /\ ~ret'.result.success]_vars

\* the second participant's attack on the first participant's turn was rejected
C10_Witness ==
    \E id \in Created :
        /\ ret.op = "attack" /\ ret.battle_id = id /\ ~ret.ok
        /\ ret.result.message = "Not your turn!"
        /\ ret.player_id = battles[id].player2_id
        /\ battles[id].state = "in_progress"
        /\ battles[id].current_turn = battles[id].player1_id

----------------------------------------------------------------------------
(* Properties of the pack system *)

\* the quantity a table holds for a key, 0 without a row
Quantity(table, key) == IF key \in DOMAIN table THEN table[key] ELSE 0

\* this step is a call open_pack(user_id, pack_type, ...)
OpenPackCalled(user_id, pack_type) ==
    /\ ret'.op = "open_pack"
    /\ ret'.player_id = user_id
    /\ ret'.result.pack_type = pack_type

\* how often the card with this card_id occurs in a returned card list
Occurrences(pack_cards, card_id) ==
    Cardinality({ i \in 1..Len(pack_cards) : get_card_by_name(pack_cards[i].name) = card_id })

\* C11: open_pack for a player whose token balance for the pack type is 0,
\* or who has no token row, returns None and changes neither the token
\* balances nor any owned card quantity.
C11_NoTokenChangesNothing ==
    [][\A user_id \in PackPlayers, pack_type \in PackTypes :
          (/\ OpenPackCalled(user_id, pack_type)
           /\ Quantity(user_packs, <<user_id, pack_type>>) = 0)
            => /\ ~ret'.ok
               /\ user_packs' = user_packs
               /\ user_cards' = user_cards]_vars

\* player 1 opened a pack with the last token (the row now holds 0), and the
\* next open_pack returned None
C11_Witness ==
    /\ ret.op = "open_pack" /\ ~ret.ok /\ ret.player_id = 1
    /\ <<1, "standard">> \in DOMAIN user_packs
    /\ user_packs[<<1, "standard">>] = 0
    /\ user_cards # NoRows

\* C12: every open_pack call that returns a card list lowers the player's
\* balance for that pack type by exactly 1, every call that returns None
\* lowers it by 0, and no balance is ever negative.
C12_OneTokenPerPack ==
    /\ [][\A user_id \in PackPlayers, pack_type \in PackTypes :
            OpenPackCalled(user_id, pack_type)
              => Quantity(user_packs', <<user_id, pack_type>>)
                   = Quantity(user_packs, <<user_id, pack_type>>)
                       - (IF ret'.ok THEN 1 ELSE 0)]_vars
    /\ [](\A key \in DOMAIN user_packs : user_packs[key] >= 0)

\* player 1 has opened MaxTokens packs and holds no token
C12_Witness ==
    /\ ret.op = "open_pack" /\ ret.ok /\ ret.player_id = 1
    /\ Len(ret.result.pack_cards) > 0
    /\ Quantity(user_packs, <<1, "standard">>) = 0
    /\ \E key \in DOMAIN user_cards : user_cards[key] >= MaxTokens

\* the consume_pack_token calls that have returned True for the player
Successes(user_id) ==
    Cardinality({ i \in DOMAIN calls :
                    calls[i].user_id = user_id /\ calls[i].pc = "done" /\ calls[i].ret })

C14_AllOrNothing ==
    [][\A user_id \in PackPlayers, pack_type \in PackTypes :
          OpenPackCalled(user_id, pack_type)
            => IF ret'.ok
               THEN /\ Quantity(user_packs', <<user_id, pack_type>>)
                         = Quantity(user_packs, <<user_id, pack_type>>) - 1
                    /\ \A card_id \in 1..Len(cards) :
                          Quantity(user_cards', <<user_id, card_id>>)
                            = Quantity(user_cards, <<user_id, card_id>>)
                                + Occurrences(ret'.result.pack_cards, card_id)
               ELSE /\ user_packs' = user_packs
                    /\ user_cards' = user_cards]_vars

\* C15: a successful open_pack(user_id, pack_type, cards_per_pack) returns
\* exactly cards_per_pack cards, whatever the rolls.
C15_ReturnsCardsPerPack ==
    (ret.op = "open_pack" /\ ret.ok)
        => Len(ret.result.pack_cards) = ret.result.cards_per_pack

\* the sum of the drop rates of the first i tiers
RECURSIVE CumulativeWeight(_)
CumulativeWeight(i) == IF i = 0 THEN 0 ELSE CumulativeWeight(i - 1) + rarities[i].drop_rate

\* the first tier whose cumulative weight reaches the roll
FirstTier(roll) ==
    rarities[CHOOSE i \in 1..Len(rarities) :
                /\ CumulativeWeight(i) >= roll
                /\ \A j \in 1..(i - 1) : CumulativeWeight(j) < roll].rarity

TierOfRoll(roll) ==
    IF roll <= 60 THEN "common"
    ELSE IF roll <= 85 THEN "rare"
    ELSE IF roll <= 95 THEN "epic"
    ELSE IF roll <= 99 THEN "legendary"
    ELSE "mythic"

RollsOf(rarity) == Cardinality({ roll \in Rolls : selected_rarity(roll) = rarity })

\* C16: for every roll in 1..100 the selected rarity is the first tier, in
\* the order common, rare, epic, legendary, mythic, whose cumulative weight
\* is >= the roll: 1..60 common, 61..85 rare, 86..95 epic, 96..99 legendary,
\* 100 mythic; 60, 25, 10, 4 and 1 of the 100 rolls select each tier.
C16_RarityOfRoll ==
    /\ ret.op = "selected_rarity"
         => /\ ret.result.selected_rarity = FirstTier(ret.result.roll)
            /\ ret.result.selected_rarity = TierOfRoll(ret.result.roll)
    /\ RollsOf("common") = 60
    /\ RollsOf("rare") = 25
    /\ RollsOf("epic") = 10
    /\ RollsOf("legendary") = 4
    /\ RollsOf("mythic") = 1

\* the roll 100 selected the mythic tier
C16_Witness ==
    /\ ret.op = "selected_rarity"
    /\ ret.result.roll = 100
    /\ ret.result.selected_rarity = "mythic"

----------------------------------------------------------------------------
(* Properties of dodging, of the battle start and of the turn counter *)

\* C17: an accepted attack whose dodge roll is <= the defender's dodge
\* chance deals zero damage (defender health and shield unchanged), ends
\* the attacker's turn and logs the dodge, and an attack whose roll is above
\* the chance is not dodged; with dodge chance 100 every roll dodges, with
\* dodge chance 0 no roll does.
C17_DodgedAttack ==
    /\ [][\A id \in Created : \A p \in Players : \A roll \in DodgeRolls :
            (attack_button_callback(id, p, roll) /\ ret'.ok)
              => LET b == battles[id]
                     defender == get_opponent_card(b, p)
                     after == get_opponent_card(battles'[id], p)
                 IN  IF roll <= defender.dodge_chance
                     THEN /\ ret'.result.dodged
                          /\ ret'.result.damage_dealt = 0
                          /\ ~ret'.result.target_defeated
                          /\ after.current_health = defender.current_health
                          /\ after.shield_amount = defender.shield_amount
                          /\ battles'[id].current_turn = get_opponent_id(b, p)
                          /\ battles'[id].state = b.state
                          /\ Len(battles'[id].battle_log) > Len(b.battle_log)
                          /\ battles'[id].battle_log[Len(b.battle_log) + 1].message = "dodged"
                     ELSE ~ret'.result.dodged]_vars
    /\ [](\A id \in Created : \A p \in Participants(battles[id]) : \A roll \in Rolls :
            LET card == get_player_card(battles[id], p)
            IN  card # NoCard
                  => /\ can_dodge_attack([card EXCEPT !.dodge_chance = 100], roll)
                     /\ ~can_dodge_attack([card EXCEPT !.dodge_chance = 0], roll))

\* the second participant's card, with a dodge chance of 50, has dodged the
\* first participant's attack and it is the second participant's turn
C17_Witness ==
    \E id \in Created :
        /\ ret.op = "attack" /\ ret.battle_id = id /\ ret.ok /\ ret.result.dodged
        /\ ret.player_id = battles[id].player1_id
        /\ battles[id].player2_card.dodge_chance = 50
        /\ battles[id].player2_card.current_health = battles[id].player2_card.max_health
        /\ battles[id].current_turn = battles[id].player2_id

\* the step is the accepted submission of participant p to registered battle
\* id, p has no card yet and the other participant has one
SecondSubmission(id, p) ==
    /\ Called("add_card", id) /\ ret'.player_id = p /\ ret'.ok
    /\ id \in active_battles
    /\ p \in Participants(battles[id])
    /\ get_player_card(battles[id], p) = NoCard
    /\ get_opponent_card(battles[id], p) # NoCard

C19_OnPlayInParticipantOrder ==
    [][\A id \in Created : \A p \in Players :
          ( /\ Called("add_card", id) /\ ret'.player_id = p /\ ret'.ok
            /\ id \in active_battles
            /\ get_opponent_card(battles[id], p) # NoCard )
            => \E card_data \in CardLibrary :
                  LET b == battles[id]
                      begun == log_event([SetCard(b, p, BattleCard(card_data, p))
                                            EXCEPT !.state = "in_progress"], "battle_begins")
                      first == _trigger_ability(begun, b.player1_id, "on_play")
                  IN  battles'[id] = _trigger_ability(first, b.player2_id, "on_play")]_vars

\* the first participant submitted Cinder Beast after the second had
\* submitted Radiant Orb: the Burn landed before the Orb's shield was up
C19_Witness ==
    \E id \in Created :
        /\ ret.op = "add_card" /\ ret.battle_id = id /\ ret.ok
        /\ ret.player_id = battles[id].player1_id
        /\ battles[id].player1_card # NoCard /\ battles[id].player2_card # NoCard
        /\ battles[id].player1_card.name = "Cinder Beast"
        /\ battles[id].player2_card.name = "Radiant Orb"
        /\ battles[id].player2_card.current_health = 2
        /\ battles[id].player2_card.shield_amount = 1
        /\ Len(battles[id].battle_log) = 5

\* C20: turn_number starts at 1, goes up by exactly 1 each time the turn
\* passes from the second participant back to the first, and is unchanged
\* when the turn passes from the first participant to the second (and when
\* the turn does not pass).
C20_TurnNumber ==
    /\ [](\A id \in Created : last_attacker[id] = NoPlayer => battles[id].turn_number = 1)
    /\ [][\A id \in Created :
            LET b == battles[id]
                after == battles'[id]
            IN  IF after.current_turn # b.current_turn /\ b.current_turn = b.player2_id
                THEN after.turn_number = b.turn_number + 1
                ELSE after.turn_number = b.turn_number]_vars

\* two full rounds have been played: it is turn 3 and the first participant's turn
C20_Witness ==
    \E id \in Created :
        /\ battles[id].turn_number = 3
        /\ battles[id].current_turn = battles[id].player1_id
        /\ last_attacker[id] = battles[id].player2_id
        /\ battles[id].state = "in_progress"

----------------------------------------------------------------------------
(* Ability system *)

\* the ability ids get_ability_effect finds an effect for
RegisteredAbilities == DOMAIN _ability_registry \ {"", "None"}

\* C21: can_trigger_ability(ability, condition) is true exactly when the
\* ability is registered (not empty, not 'None') and its effect's trigger is
\* the condition or 'passive'; for an empty, 'None' or unregistered id it is
\* false for every condition.
C21_CanTriggerAbility ==
    unit.op = "can_trigger_ability" =>
        /\ unit.can_trigger <=>
              /\ unit.ability_text \in RegisteredAbilities
              /\ \/ _ability_registry[unit.ability_text].condition = unit.trigger_condition
                 \/ _ability_registry[unit.ability_text].condition = "passive"
        /\ unit.ability_text \notin RegisteredAbilities => unit.can_trigger = FALSE

\* a passive ability asked about another condition, an on-attack ability
\* asked about its own, and an unregistered one
C21_Witness ==
    /\ unit.op = "can_trigger_ability"
    /\ \/ /\ unit.ability_text = "Armor: Reduce damage by 1"
          /\ unit.trigger_condition = "on_attack"
          /\ unit.can_trigger = TRUE
       \/ /\ unit.ability_text = "Shock: Stun target"
          /\ unit.trigger_condition = "on_attack"
          /\ unit.can_trigger = TRUE

\* the effect types whose helper needs a target
NeedsTarget == {"damage", "stun", "attack_debuff"}

\* C22: execute_ability returns success = false with a diagnostic message
\* both for an unknown ability id and for an effect that needs a target
\* (damage, stun, attack_debuff) when no target is supplied.
C22_ExecuteAbilityFailures ==
    (/\ unit.op = "execute_ability"
     /\ \/ unit.ability_text \notin RegisteredAbilities
        \/ /\ _ability_registry[unit.ability_text].effect_type \in NeedsTarget
           /\ unit.target_data = NoCard)
    => /\ unit.ret.success = FALSE
       /\ unit.ret.message # ""

\* C23: execute_ability changes no state: the caster and target data passed
\* in, and every BattleCard, are after the call what they were before it.
C23_ExecuteAbilityChangesNothing ==
    [][unit'.op = "execute_ability" =>
          /\ unit'.caster_data = unit.caster_data
          /\ unit'.target_data = unit.target_data
          /\ battles' = battles]_vars

\* a damage ability executed on a target: the result carries the damage,
\* the target dict and the target's BattleCard still have their health
C23_Witness ==
    /\ unit.op = "execute_ability"
    /\ unit.ret.success
    /\ unit.ret.effect_type = "damage"
    /\ unit.ret.result.applied
    /\ unit.ret.result.val = 1
    /\ unit.target_data # NoCard
    /\ unit.target_data = to_dict(battles[1].player2_card)

----------------------------------------------------------------------------
(* Ability effects in a battle *)

\* the step is the submission of card c by participant p that starts battle 1
StartsBattle(p, c) ==
    /\ battles[1].state = "card_selection"
    /\ card_selected(1, p, c)
    /\ battles'[1].state # "card_selection"

\* the effect of the card participant x has in battle b
EffectOf(b, x) == get_ability_effect(get_player_card(b, x).ability)

\* C26: after an on-play attack_debuff ability of magnitude m resolves at
\* battle start, the opposing card's current attack is max(0, its attack
\* before - m).
C26_AttackDebuff ==
    [][\A p \in {1, 2}, c \in EffectCards :
          StartsBattle(p, c) =>
            \A x \in {1, 2} :
              LET y == get_opponent_id(battles'[1], x)
                  before == IF y = p THEN c.attack
                            ELSE get_player_card(battles[1], y).current_attack
                  effect == EffectOf(battles'[1], x)
              IN  (effect.effect_type = "attack_debuff" /\ effect.condition = "on_play")
                    => get_player_card(battles'[1], y).current_attack
                          = Max(0, before - effect.value)]_vars

\* the battle is as its start left it, in the attack phase: no attack yet
FreshlyStarted(b) ==
    /\ b.state = "in_progress"
    /\ \E c1, c2 \in EffectCards : b = StartedBattle(c1, c2)

----------------------------------------------------------------------------
(* The end of a battle *)

\* battle id is not in the registry: get_battle(id) finds nothing and no
\* participant has an active battle
Removed(id) ==
    /\ id \notin active_battles
    /\ get_battle(id) = NoBattle
    /\ battles[id] # NoBattle
          => \A p \in Participants(battles[id]) : get_player_active_battle(p) = {}

\* C24: every battle that reaches FINISHED (by a lethal attack, a forfeit or
\* a lethal on-play ability) is eventually removed from the registry; then
\* get_battle finds nothing and neither participant has an active battle.
C24_FinishedBattleRemoved ==
    \A id \in 1..MaxBattles :
        (battles[id] # NoBattle /\ battles[id].state = "finished") ~> Removed(id)

\* the step is the challenged player's reject, or the challenger's cancel,
\* of a challenge not yet answered
Declines(id) ==
    /\ unit.battle_id = id
    /\ ~unit.challenge_accepted /\ ~unit.challenge_cancelled
    /\ \/ Called("reject_challenge", id) /\ ret'.player_id = unit.opponent_id
       \/ Called("cancel_challenge", id) /\ ret'.player_id = unit.challenger_id

\* C25: when the challenged player rejects, or the challenger cancels, a
\* battle in CARD_SELECTION, the battle ends in state CANCELLED and is no
\* longer an active battle of either player; CANCELLED is entered from no
\* other state.
C25_DeclinedChallengeCancelled ==
    [][\A id \in Created :
          /\ (Declines(id) /\ battles[id].state = "card_selection")
                => /\ battles'[id].state = "cancelled"
                   /\ ~(id \in active_battles' /\ IsActive(battles'[id]))
          /\ (battles'[id].state = "cancelled" /\ battles[id].state # "cancelled")
                => battles[id].state = "card_selection"]_vars

----------------------------------------------------------------------------
(* Card stats *)

\* the BattleCards of the created battles
BattleCards ==
    ({ battles[id].player1_card : id \in Created } \cup
     { battles[id].player2_card : id \in Created }) \ {NoCard}

\* C29: in every reachable state every BattleCard has
\* 0 <= current_health <= max_health, current_attack >= 0,
\* shield_amount >= 0, damage_reduction >= 0 and 0 <= dodge_chance <= 100.
C29_CardStatsInRange ==
    \A card \in BattleCards :
        /\ 0 <= card.current_health /\ card.current_health <= card.max_health
        /\ card.current_attack >= 0
        /\ card.shield_amount >= 0
        /\ card.damage_reduction >= 0
        /\ 0 <= card.dodge_chance /\ card.dodge_chance <= 100

\* an accepted attack with more damage than the defender had health has left
\* it at health 0, in a battle whose other stats were changed by abilities
C29_Witness ==
    /\ ret.op = "attack" /\ ret.ok /\ ret.result.target_defeated
    /\ LET b == battles[1]
           attacker == get_player_card(b, ret.player_id)
           defender == get_opponent_card(b, ret.player_id)
       IN  /\ defender.current_health = 0
           /\ attacker.current_attack > defender.max_health
           /\ attacker.damage_reduction > 0

----------------------------------------------------------------------------
(* The winner *)

\* the step starts battle id and the first participant's on-play damage
\* ability has killed the second participant's card in it
FirstKillsOnPlay(id) ==
    /\ Called("add_card", id) /\ ret'.ok
    /\ battles[id].state = "card_selection"
    /\ battles'[id].state # "card_selection"
    /\ EffectOf(battles'[id], battles'[id].player1_id).effect_type = "damage"
    /\ EffectOf(battles'[id], battles'[id].player1_id).condition = "on_play"
    /\ ~is_alive(battles'[id].player2_card)

\* C30: once a battle's winner is set it never changes. If the first
\* participant's on-play ability kills the second participant's card, the
\* second card's on-play ability is not applied (the dead card has the
\* stats of its construction, the first card is untouched) and the first
\* participant is the winner; and no card stat changes once the battle is
\* FINISHED.
C30_WinnerNeverChanges ==
    [][\A id \in Created :
          LET b == battles[id]
              a == battles'[id]
          IN  /\ b.winner_id # NoPlayer => a.winner_id = b.winner_id
              /\ b.state = "finished"
                    => a.player1_card = b.player1_card /\ a.player2_card = b.player2_card
              /\ FirstKillsOnPlay(id)
                    => /\ a.state = "finished" /\ a.winner_id = a.player1_id
                       /\ a.player2_card.shield_amount = 0
                       /\ a.player2_card.damage_reduction = 0
                       /\ a.player2_card.dodge_chance = 0
                       /\ a.player1_card.current_health = a.player1_card.max_health]_vars

\* C31: whenever a battle is FINISHED its winner_id is one of its two
\* participants (never null), also when the forfeit came from a user who is
\* not a participant; while the battle is not FINISHED winner_id is null.
C31_WinnerIsParticipant ==
    \A id \in Created :
        /\ battles[id].state = "finished"
              => battles[id].winner_id \in Participants(battles[id])
        /\ battles[id].state # "finished"
              => battles[id].winner_id = NoPlayer

----------------------------------------------------------------------------
(* Progress of a battle *)

\* battle id is in progress with two cards that can hurt each other
CanBeFought(id) ==
    /\ battles[id] # NoBattle
    /\ battles[id].state = "in_progress"
    /\ battles[id].player1_card # NoCard /\ battles[id].player2_card # NoCard
    /\ battles[id].player1_card.current_attack > 0
    /\ battles[id].player2_card.current_attack > 0
    /\ battles[id].player1_card.dodge_chance < 100
    /\ battles[id].player2_card.dodge_chance < 100

\* C32: an IN_PROGRESS battle whose cards both have current attack > 0 and
\* dodge chance < 100, and in which the participant whose turn it is keeps
\* attacking, eventually reaches FINISHED.
C32_AttacksFinishBattle ==
    \A id \in BattleIds :
        CanBeFought(id) ~> (battles[id] # NoBattle /\ battles[id].state = "finished")

(* Commands issued concurrently *)
\* the step runs the callback of participant p's interaction op
Ran(p, op) ==
    /\ calls[p].pc = "pending" /\ calls'[p].pc = "responding"
    /\ calls[p].op = op

C34_SaveFailureSurfaced ==
    \A i \in DOMAIN calls :
        calls[i].raised
           => /\ calls[i].returned # "None"
              /\ battles[calls[i].battle_id].state = calls[i].state
              /\ battles[calls[i].battle_id].current_turn = calls[i].current_turn
              /\ battles[calls[i].battle_id].winner_id = calls[i].winner_id

\* the half of C34 the code keeps: the battle in memory is not rolled back
C34_NotRolledBack ==
    \A i \in DOMAIN calls :
        calls[i].raised
           => /\ battles[calls[i].battle_id].state = calls[i].state
              /\ battles[calls[i].battle_id].current_turn = calls[i].current_turn
              /\ battles[calls[i].battle_id].winner_id = calls[i].winner_id

(* Ids of the registry *)
\* the registered battles that are not finished
Unfinished == { id \in active_battles : battles[id].state # "finished" }

\* C35: distinct live battles have distinct ids: a successful create
\* registers a fresh battle of its two players under its id, and every battle
\* that was registered and unfinished is still registered, under its id and
\* unchanged.
C35_CreateKeepsRegisteredBattles ==
    [][ \A id \in BattleIds :
          (Called("create_battle", id) /\ ret'.ok)
             => /\ get_battle(id)' # NoBattle
                /\ get_battle(id)'.player1_id = ret'.player_id
                /\ \A old \in Unfinished :
                      /\ old \in active_battles'
                      /\ battles'[old] = battles[old]
      ]_vars

(* The card of the pressed button *)
\* C36: the card the selection step places in the battle is the card of the
\* button the player pressed, at every position of the displayed page.
C36_PressedCardSelected ==
    [][ \A pos \in 1..cards_per_page :
          (card_button_pressed(pos) /\ ret'.ok)
             => get_player_card(battles'[unit.battle_id], unit.user_id).name
                   = unit.children[pos].name
      ]_vars

(* The event log *)
\* C37: the event log of a battle is append-only: every operation leaves the
\* entries logged before unchanged and in order (the old log is a prefix of
\* the new log), and a failed attack appends nothing.
C37_LogAppendOnly ==
    [][ \A id \in Created :
          LET old == battles[id].battle_log
              new == battles'[id].battle_log
          IN  /\ battles'[id] # NoBattle
              /\ Len(new) >= Len(old)
              /\ SubSeq(new, 1, Len(old)) = old
              /\ (Called("attack", id) /\ ~ret'.ok) => new = old
      ]_vars

\* an attack was rejected on a battle whose log already holds the entries of
\* an accepted attack
C37_Witness ==
    /\ ret.op = "attack" /\ ret.battle_id = 1 /\ ~ret.ok
    /\ last_attacker[1] # NoPlayer
    /\ battles[1].state = "in_progress"
    /\ Len(battles[1].battle_log) >= 3

(* Telling the failures of attack apart *)
\* C38: the failure attack returns when the battle is not IN_PROGRESS, the
\* failure it returns when the battle is IN_PROGRESS and it is not the
\* attacker's turn, and the failure for a card that has attacked or cannot
\* attack are three different results.
C38_AttackFailuresDistinct ==
    \A c1, c2 \in FailureCauses :
        (c1 # c2 /\ calls[c1] # NoResult /\ calls[c2] # NoResult)
           => calls[c1] # calls[c2]

====
